---- MODULE Spec2Model ----
(***************************************************************************)
(* triangle_matrix: index arithmetic for triangle matrices packed into a   *)
(* one dimensional collection.                                             *)
(*                                                                         *)
(* The state is one triangle object (the axis length n and the packed      *)
(* collection inner, as the tests' `TriVec(usize, Vec<usize>)`), the build *)
(* profile it was compiled under, and the most recent call with what it    *)
(* returned.  Every trait method is an operator computed as the source     *)
(* computes it, on usize values of 64 bits; every action is one call of    *)
(* one method, and Release is the caller letting go of what the call       *)
(* returned (a reference borrows the object until then).                   *)
(***************************************************************************)
EXTENDS Integers, Sequences, FiniteSets, TLC

\* Largest axis length n of a triangle object.
MaxN == 5
\* Largest small row or column argument handed to a method.
MaxArg == 5
\* Most stores through get_element_mut in one behaviour.
MaxStores == 2
\* Most items of one iterator that are followed.
MaxYield == 16

VARIABLES
    n,                  \* Triangle::n(): the axis length
    inner,              \* Triangle::inner(): the packed collection
    debug_assertions,   \* cfg(debug_assertions): debug_assert! is compiled in
    overflow_checks,    \* -C overflow-checks: + - * panic instead of wrapping
    stores,             \* values stored through get_element_mut so far
    call,               \* the most recent call: method and arguments
    ret                 \* what that call returned, or that it panicked

vars == <<n, inner, debug_assertions, overflow_checks, stores, call, ret>>

(***************************************************************************)
(* usize arithmetic, 64 bits wide.  A usize is written as its four digits  *)
(* of 16 bits, least significant first: <<d0, d1, d2, d3>> is the value    *)
(* d0 + d1 * 2^16 + d2 * 2^32 + d3 * 2^48.  Unwind stands for the value of *)
(* a computation that panicked.                                            *)
(***************************************************************************)
Base == 2 ^ 16

Unwind == << >>

Panicked(x) == x = Unwind

\* The usize of the natural number k, k < 2^31.
U(k) == <<k % Base, k \div Base, 0, 0>>

\* usize::MAX = 2^64 - 1
usize_MAX == <<Base - 1, Base - 1, Base - 1, Base - 1>>

\* The usize x is less than 2^31.
Small(x) == x[3] = 0 /\ x[4] = 0 /\ x[2] < Base \div 2

\* The natural number of the usize x when x is less than 2^31; NotANumber
\* for Unwind and TooLarge for a usize of 2^31 or more.
NotANumber == 0 - Base

TooLarge == 0 - 2 * Base

N(x) ==
    IF Panicked(x) THEN NotANumber
    ELSE IF Small(x) THEN x[1] + Base * x[2]
    ELSE TooLarge

\* a < b
usize_lt(a, b) ==
    IF a[4] # b[4] THEN a[4] < b[4]
    ELSE IF a[3] # b[3] THEN a[3] < b[3]
    ELSE IF a[2] # b[2] THEN a[2] < b[2]
    ELSE a[1] < b[1]

\* a <= b
usize_le(a, b) == ~usize_lt(b, a)

\* usize::overflowing_add: the sum modulo 2^64, and whether it overflowed.
overflowing_add(a, b) ==
    LET s1 == a[1] + b[1]
        s2 == a[2] + b[2] + s1 \div Base
        s3 == a[3] + b[3] + s2 \div Base
        s4 == a[4] + b[4] + s3 \div Base
    IN  [value |-> <<s1 % Base, s2 % Base, s3 % Base, s4 % Base>>,
         overflow |-> s4 >= Base]

\* usize::overflowing_sub: the difference modulo 2^64, and whether it
\* underflowed.
overflowing_sub(a, b) ==
    LET d1 == a[1] - b[1]
        d2 == a[2] - b[2] + d1 \div Base
        d3 == a[3] - b[3] + d2 \div Base
        d4 == a[4] - b[4] + d3 \div Base
    IN  [value |-> <<d1 % Base, d2 % Base, d3 % Base, d4 % Base>>,
         overflow |-> d4 < 0]

\* The eight bytes of a usize, least significant first.
Bytes(x) ==
    <<x[1] % 256, x[1] \div 256, x[2] % 256, x[2] \div 256,
      x[3] % 256, x[3] \div 256, x[4] % 256, x[4] \div 256>>

\* Long multiplication, column k: the sum of x[i] * y[k - i] over the bytes.
RECURSIVE Column(_, _, _, _)
Column(x, y, k, i) ==
    IF i > 7 \/ i > k THEN 0
    ELSE (IF k - i <= 7 THEN x[i + 1] * y[k - i + 1] ELSE 0) + Column(x, y, k, i + 1)

RECURSIVE ProductBytes(_, _, _, _)
ProductBytes(x, y, k, carry) ==
    IF k = 16 THEN << >>
    ELSE LET t == Column(x, y, k, 0) + carry IN
         <<t % 256>> \o ProductBytes(x, y, k + 1, t \div 256)

\* usize::widening_mul: the sixteen bytes of the full product a * b.
widening_mul(a, b) == ProductBytes(Bytes(a), Bytes(b), 0, 0)

\* usize::overflowing_mul: the product modulo 2^64, and whether it overflowed.
overflowing_mul(a, b) ==
    IF N(a) \in 0 .. 32767 /\ N(b) \in 0 .. 32767
    THEN [value |-> U(N(a) * N(b)), overflow |-> FALSE]
    ELSE LET p == widening_mul(a, b) IN
         [value |-> <<p[1] + 256 * p[2], p[3] + 256 * p[4],
                      p[5] + 256 * p[6], p[7] + 256 * p[8]>>,
          overflow |-> \E k \in 9 .. 16 : p[k] # 0]

\* a + b
usize_add(a, b) ==
    IF Panicked(a) \/ Panicked(b) THEN Unwind
    ELSE LET r == overflowing_add(a, b)
         IN  IF r.overflow /\ overflow_checks THEN Unwind ELSE r.value

\* a - b
usize_sub(a, b) ==
    IF Panicked(a) \/ Panicked(b) THEN Unwind
    ELSE LET r == overflowing_sub(a, b)
         IN  IF r.overflow /\ overflow_checks THEN Unwind ELSE r.value

\* a * b
usize_mul(a, b) ==
    IF Panicked(a) \/ Panicked(b) THEN Unwind
    ELSE LET r == overflowing_mul(a, b)
         IN  IF r.overflow /\ overflow_checks THEN Unwind ELSE r.value

\* a / d, d a non-zero literal below 2^15
usize_div(a, d) ==
    IF Panicked(a) THEN Unwind
    ELSE LET c4 == a[4]
             c3 == (c4 % d) * Base + a[3]
             c2 == (c3 % d) * Base + a[2]
             c1 == (c2 % d) * Base + a[1]
         IN  <<c1 \div d, c2 \div d, c3 \div d, c4 \div d>>

\* ops.rs: tri_num
\* Variant of tri_num that does not halve the product.
tri_num_NotHalved(m) == usize_mul(m, usize_add(m, U(1)))

tri_num(m) == usize_div(usize_mul(m, usize_add(m, U(1))), 2)

(***************************************************************************)
(* What a call returns.                                                    *)
(***************************************************************************)
\* No element: the value of a result that refers to no slot.
NoValue == 0 - 1

\* The call panicked: nothing is returned.
PanicRet ==
    [panic |-> TRUE, index |-> Unwind, value |-> NoValue, seq |-> << >>,
     more |-> FALSE, panics_later |-> FALSE]

\* A usize result (an index of the packed collection).
IndexRet(index) ==
    IF Panicked(index) THEN PanicRet
    ELSE [panic |-> FALSE, index |-> index, value |-> NoValue, seq |-> << >>,
          more |-> FALSE, panics_later |-> FALSE]

\* &s[index]: the slice's bounds check, then a reference to the slot.
SliceIndex(s, index) ==
    IF Panicked(index) THEN PanicRet
    ELSE IF ~usize_lt(index, U(Len(s))) THEN PanicRet
    ELSE [panic |-> FALSE, index |-> index, value |-> s[N(index) + 1],
          seq |-> << >>, more |-> FALSE, panics_later |-> FALSE]

\* The call returned an iterator: seq holds the items its next() yields, one
\* after the other.  When more is FALSE the next() after the items of seq
\* panics if panics_later is TRUE and returns None if it is not.  When more is
\* TRUE that next() yields a further item (seq then holds the first MaxYield
\* items or more), and panics_later tells whether a next() after it panics.
IterRet(s, more) ==
    [panic |-> FALSE, index |-> Unwind, value |-> NoValue, seq |-> s,
     more |-> more, panics_later |-> FALSE]

\* An iterator that yields the items of s and panics in the next() after them.
Interrupted(s) ==
    [panic |-> FALSE, index |-> Unwind, value |-> NoValue, seq |-> s,
     more |-> FALSE, panics_later |-> TRUE]

\* An iterator over the items of s.
Followed(s) ==
    IF Len(s) <= MaxYield THEN IterRet(s, FALSE)
    ELSE IterRet(SubSeq(s, 1, MaxYield), TRUE)

\* first, first + 1, ..., first + span
Counting(first, span) ==
    IF Small(span) /\ N(span) < MaxYield
    THEN IterRet([k \in 1 .. N(span) + 1 |-> overflowing_add(first, U(k - 1)).value],
                 FALSE)
    ELSE IterRet([k \in 1 .. MaxYield |-> overflowing_add(first, U(k - 1)).value],
                 TRUE)

\* a..b (Range<usize>): a, a + 1, ..., b - 1, nothing when a >= b; the two
\* ends are computed when the range is built.
Range(a, b) ==
    IF Panicked(a) \/ Panicked(b) THEN PanicRet
    ELSE IF usize_lt(a, b)
         THEN Counting(a, overflowing_sub(overflowing_sub(b, a).value, U(1)).value)
    ELSE IterRet(<< >>, FALSE)

\* a..=b (RangeInclusive<usize>): a, a + 1, ..., b, nothing when a > b.
RangeInclusive(a, b) ==
    IF Panicked(a) \/ Panicked(b) THEN PanicRet
    ELSE IF usize_le(a, b) THEN Counting(a, overflowing_sub(b, a).value)
    ELSE IterRet(<< >>, FALSE)

\* The items of a range r and, when r goes on after them, the item its next()
\* yields then.
Peeked(r) ==
    IF r.more THEN Append(r.seq, overflowing_add(r.seq[Len(r.seq)], U(1)).value)
    ELSE r.seq

\* r.map(closure), items[k] the closure's value on the k-th item of r, the
\* item that follows those of r.seq included when r goes on, and last its
\* value on the last item of r: the adapter is lazy, the closure runs in
\* next(), so the items before the first one whose closure panics are yielded
\* and the next() after them panics.  The closures of this crate panic on the
\* overflow of a sum, a difference or a product that grows with the item, so
\* one of them panics on some item exactly when it panics on the last.
Collected(r, items, last) ==
    IF r.panic THEN PanicRet
    ELSE LET panicking == {k \in 1 .. Len(items) : Panicked(items[k])} IN
         IF panicking # {}
         THEN LET first == CHOOSE k \in panicking : \A l \in panicking : k <= l
              IN  Interrupted(SubSeq(items, 1, first - 1))
         ELSE IF ~r.more
         THEN IF r.panics_later THEN Interrupted(items) ELSE IterRet(items, FALSE)
         ELSE [IterRet(SubSeq(items, 1, Len(r.seq)), TRUE)
                   EXCEPT !.panics_later = r.panics_later \/ Panicked(last)]

\* a.chain(b): both iterators are built when the call is made; the items of
\* b follow when a has ended.
Chain(a, b) ==
    IF a.panic \/ b.panic THEN PanicRet
    ELSE IF a.more \/ a.panics_later THEN a
    ELSE IF b.panics_later THEN Interrupted(a.seq \o b.seq)
    ELSE IterRet(a.seq \o b.seq, b.more)

\* debug_assert!(c)
debug_assert(c) == debug_assertions => c

\* self.n()
self_n == U(n)

(***************************************************************************)
(* lower/base.rs                                                           *)
(***************************************************************************)
\* Variant of get_element_index that leaves out the column.
BaseLowerIndex_get_element_index_NoColumn(i, j) == tri_num(i)

\* tri_num(i) + j (the parameter _n is unused)
BaseLowerIndex_get_element_index(i, j) == usize_add(tri_num(i), j)

BaseLowerIndex_get_row_start_index(i) == tri_num(i)

BaseLowerIndex_get_col_start_index(j) == usize_add(tri_num(j), j)

\* get_row_start_index(i)..get_row_start_index(i + 1)
BaseLowerIndex_get_row_indices(i) ==
    Range(BaseLowerIndex_get_row_start_index(i),
          BaseLowerIndex_get_row_start_index(usize_add(i, U(1))))

\* (0..n - j).map(|row_index| get_row_start_index(row_index + j) + j)
BaseLowerIndex_get_col_indices(j, m) ==
    LET rows == Range(U(0), usize_sub(m, j))
        upto == Peeked(rows)
        item(row_index) ==
            usize_add(BaseLowerIndex_get_row_start_index(usize_add(row_index, j)), j)
    IN  Collected(rows, [k \in 1 .. Len(upto) |-> item(upto[k])],
                  item(overflowing_sub(overflowing_sub(m, j).value, U(1)).value))

\* base::iter_triangle_indices(n) of the lower orientation: the pairs (i, j)
\* of the triangle with its diagonal, 0 <= j <= i < n, row by row.
RECURSIVE BaseLowerIndex_rows_from(_, _)
BaseLowerIndex_rows_from(i, m) ==
    IF i >= m THEN << >>
    ELSE [k \in 1 .. i + 1 |-> <<U(i), U(k - 1)>>]
         \o BaseLowerIndex_rows_from(i + 1, m)

\* The pairs the iterator yields first, MaxYield + 1 of them at most: they
\* lie in the first MaxYield + 1 rows.
BaseLowerIndex_first_pairs(m) ==
    IF Panicked(m) THEN << >>
    ELSE LET rows == IF usize_lt(m, U(MaxYield + 1)) THEN N(m) ELSE MaxYield + 1
             all == BaseLowerIndex_rows_from(0, rows)
         IN  IF Len(all) <= MaxYield THEN all ELSE SubSeq(all, 1, MaxYield + 1)

BaseLowerIndex_iter_triangle_indices(m) ==
    IF Panicked(m) THEN PanicRet
    ELSE Followed(BaseLowerIndex_first_pairs(m))

(***************************************************************************)
(* upper/base.rs                                                           *)
(***************************************************************************)
\* Variant of get_element_index that starts the row one row too low.
BaseUpperIndex_get_element_index_RowsBelow(i, j, m) ==
    usize_add(usize_sub(tri_num(m), tri_num(usize_sub(usize_sub(m, i), U(1)))), j)

\* tri_num(n) - tri_num(n - i) + j
BaseUpperIndex_get_element_index(i, j, m) ==
    usize_add(usize_sub(tri_num(m), tri_num(usize_sub(m, i))), j)

BaseUpperIndex_get_row_start_index(i, m) ==
    usize_sub(tri_num(m), tri_num(usize_sub(m, i)))

BaseUpperIndex_get_col_start_index(j) == j

\* Variant of get_row_indices whose range also takes the next row's start.
BaseUpperIndex_get_row_indices_ThroughNextStart(i, m) ==
    Range(BaseUpperIndex_get_row_start_index(i, m),
          usize_add(BaseUpperIndex_get_row_start_index(usize_add(i, U(1)), m), U(1)))

\* get_row_start_index(i, n)..get_row_start_index(i + 1, n)
BaseUpperIndex_get_row_indices(i, m) ==
    Range(BaseUpperIndex_get_row_start_index(i, m),
          BaseUpperIndex_get_row_start_index(usize_add(i, U(1)), m))

\* Variant of get_col_indices that keeps the column absolute in every row.
BaseUpperIndex_get_col_indices_AbsoluteColumn(j, m) ==
    LET rows == RangeInclusive(U(0), j)
        upto == Peeked(rows)
        item(row_index) ==
            usize_add(BaseUpperIndex_get_row_start_index(row_index, m), j)
    IN  Collected(rows, [k \in 1 .. Len(upto) |-> item(upto[k])], item(j))

\* (0..=j).map(|row_index| get_row_start_index(row_index, n) + j - row_index)
BaseUpperIndex_get_col_indices(j, m) ==
    LET rows == RangeInclusive(U(0), j)
        upto == Peeked(rows)
        item(row_index) ==
            usize_sub(usize_add(BaseUpperIndex_get_row_start_index(row_index, m), j),
                      row_index)
    IN  Collected(rows, [k \in 1 .. Len(upto) |-> item(upto[k])], item(j))

\* base::iter_triangle_indices(n) of the upper orientation: the pairs (i, j)
\* of the triangle with its diagonal, 0 <= i <= j < n, row by row.
RECURSIVE BaseUpperIndex_rows_from(_, _)
BaseUpperIndex_rows_from(i, m) ==
    IF i >= m THEN << >>
    ELSE [k \in 1 .. m - i |-> <<U(i), U(i + (k - 1))>>]
         \o BaseUpperIndex_rows_from(i + 1, m)

\* The pairs the iterator yields first, MaxYield + 1 of them at most: they
\* lie in the first MaxYield + 1 rows.
BaseUpperIndex_first_pairs(m) ==
    IF Panicked(m) THEN << >>
    ELSE LET rows == IF usize_lt(m, U(MaxYield + 1)) THEN N(m) ELSE MaxYield + 1
             all == BaseUpperIndex_rows_from(0, rows)
         IN  IF Len(all) <= MaxYield THEN all ELSE SubSeq(all, 1, MaxYield + 1)

BaseUpperIndex_iter_triangle_indices(m) ==
    IF Panicked(m) THEN PanicRet
    ELSE Followed(BaseUpperIndex_first_pairs(m))

(***************************************************************************)
(* lower/simple.rs                                                         *)
(***************************************************************************)
\* Variant of get_element that indexes base row i instead of i - 1.
SimpleLowerTri_get_element_RowNotShifted(i, j) ==
    IF ~debug_assert(usize_le(i, usize_sub(self_n, U(1)))) THEN PanicRet
    ELSE IF ~debug_assert(usize_le(j, usize_sub(self_n, U(1)))) THEN PanicRet
    ELSE IF ~(i # U(0)) THEN PanicRet
    ELSE IF ~usize_lt(j, i) THEN PanicRet
    ELSE SliceIndex(inner, BaseLowerIndex_get_element_index(i, j))

\* Variant of get_element without assert!(j < i).
SimpleLowerTri_get_element_NoColumnAssert(i, j) ==
    IF ~debug_assert(usize_le(i, usize_sub(self_n, U(1)))) THEN PanicRet
    ELSE IF ~debug_assert(usize_le(j, usize_sub(self_n, U(1)))) THEN PanicRet
    ELSE IF ~(i # U(0)) THEN PanicRet
    ELSE SliceIndex(inner, BaseLowerIndex_get_element_index(usize_sub(i, U(1)), j))

SimpleLowerTri_get_element(i, j) ==
    IF ~debug_assert(usize_le(i, usize_sub(self_n, U(1)))) THEN PanicRet
    ELSE IF ~debug_assert(usize_le(j, usize_sub(self_n, U(1)))) THEN PanicRet
    ELSE IF ~(i # U(0)) THEN PanicRet
    ELSE IF ~usize_lt(j, i) THEN PanicRet
    ELSE SliceIndex(inner, BaseLowerIndex_get_element_index(usize_sub(i, U(1)), j))

\* Variant of get_element_mut that addresses base row i instead of i - 1.
SimpleLowerTriMut_get_element_mut_RowNotShifted(i, j) ==
    IF ~debug_assert(usize_le(i, usize_sub(self_n, U(1)))) THEN PanicRet
    ELSE IF ~debug_assert(usize_le(j, usize_sub(self_n, U(1)))) THEN PanicRet
    ELSE IF ~(i # U(0)) THEN PanicRet
    ELSE IF ~usize_lt(j, i) THEN PanicRet
    ELSE SliceIndex(inner, BaseLowerIndex_get_element_index(i, j))

SimpleLowerTriMut_get_element_mut(i, j) ==
    IF ~debug_assert(usize_le(i, usize_sub(self_n, U(1)))) THEN PanicRet
    ELSE IF ~debug_assert(usize_le(j, usize_sub(self_n, U(1)))) THEN PanicRet
    ELSE IF ~(i # U(0)) THEN PanicRet
    ELSE IF ~usize_lt(j, i) THEN PanicRet
    ELSE SliceIndex(inner, BaseLowerIndex_get_element_index(usize_sub(i, U(1)), j))

\* Variant of get_row_start_index without `assert!(i != 0)`.
SimpleLowerTri_get_row_start_index_NoRowAssert(i) ==
    IF ~debug_assert(usize_le(i, usize_sub(self_n, U(1)))) THEN Unwind
    ELSE BaseLowerIndex_get_row_start_index(usize_sub(i, U(1)))

SimpleLowerTri_get_row_start_index(i) ==
    IF ~debug_assert(usize_le(i, usize_sub(self_n, U(1)))) THEN Unwind
    ELSE IF ~(i # U(0)) THEN Unwind
    ELSE BaseLowerIndex_get_row_start_index(usize_sub(i, U(1)))

SimpleLowerTri_get_col_start_index(j) ==
    IF ~debug_assert(usize_le(j, usize_sub(self_n, U(1)))) THEN Unwind
    ELSE BaseLowerIndex_get_col_start_index(j)

\* Variant of get_row_indices that scans base row i instead of i - 1.
SimpleLowerTri_get_row_indices_RowNotShifted(i) ==
    IF ~debug_assert(usize_le(i, usize_sub(self_n, U(1)))) THEN PanicRet
    ELSE IF ~(i # U(0)) THEN PanicRet
    ELSE BaseLowerIndex_get_row_indices(i)

SimpleLowerTri_get_row_indices(i) ==
    IF ~debug_assert(usize_le(i, usize_sub(self_n, U(1)))) THEN PanicRet
    ELSE IF ~(i # U(0)) THEN PanicRet
    ELSE BaseLowerIndex_get_row_indices(usize_sub(i, U(1)))

\* Variant of get_col_indices that scans the base triangle of size n.
SimpleLowerTri_get_col_indices_FullSize(j) ==
    IF ~debug_assert(usize_le(j, usize_sub(self_n, U(1)))) THEN PanicRet
    ELSE BaseLowerIndex_get_col_indices(j, self_n)

SimpleLowerTri_get_col_indices(j) ==
    IF ~debug_assert(usize_le(j, usize_sub(self_n, U(1)))) THEN PanicRet
    ELSE BaseLowerIndex_get_col_indices(j, usize_sub(self_n, U(1)))

\* Variant of iter_triangle_indices that yields the base pairs as they are.
SimpleLowerTri_iter_triangle_indices_RowNotShifted ==
    BaseLowerIndex_iter_triangle_indices(usize_sub(self_n, U(1)))

\* base::iter_triangle_indices(self.n() - 1).map(|(i, j)| (i + 1, j))
SimpleLowerTri_iter_triangle_indices ==
    LET pairs == BaseLowerIndex_iter_triangle_indices(usize_sub(self_n, U(1)))
        upto == BaseLowerIndex_first_pairs(usize_sub(self_n, U(1)))
        item(pair) ==
            LET row == usize_add(pair[1], U(1)) IN
            IF Panicked(row) THEN Unwind ELSE <<row, pair[2]>>
    IN  Collected(pairs, [k \in 1 .. Len(upto) |-> item(upto[k])],
                  item(<<usize_sub(self_n, U(2)), usize_sub(self_n, U(2))>>))

(***************************************************************************)
(* upper/simple.rs                                                         *)
(***************************************************************************)
\* Variant of get_element that passes j - i instead of j - (i + 1).
SimpleUpperTri_get_element_ColumnNotShifted(i, j) ==
    IF ~debug_assert(usize_le(i, usize_sub(self_n, U(1)))) THEN PanicRet
    ELSE IF ~debug_assert(usize_le(j, usize_sub(self_n, U(1)))) THEN PanicRet
    ELSE IF ~(j # U(0)) THEN PanicRet
    ELSE IF ~usize_lt(i, j) THEN PanicRet
    ELSE SliceIndex(inner,
            BaseUpperIndex_get_element_index(i, usize_sub(j, i), usize_sub(self_n, U(1))))

\* Variant of get_element without assert!(i < j).
SimpleUpperTri_get_element_NoOrderAssert(i, j) ==
    IF ~debug_assert(usize_le(i, usize_sub(self_n, U(1)))) THEN PanicRet
    ELSE IF ~debug_assert(usize_le(j, usize_sub(self_n, U(1)))) THEN PanicRet
    ELSE IF ~(j # U(0)) THEN PanicRet
    ELSE SliceIndex(inner,
            BaseUpperIndex_get_element_index(
                i, usize_sub(j, usize_add(i, U(1))), usize_sub(self_n, U(1))))

SimpleUpperTri_get_element(i, j) ==
    IF ~debug_assert(usize_le(i, usize_sub(self_n, U(1)))) THEN PanicRet
    ELSE IF ~debug_assert(usize_le(j, usize_sub(self_n, U(1)))) THEN PanicRet
    ELSE IF ~(j # U(0)) THEN PanicRet
    ELSE IF ~usize_lt(i, j) THEN PanicRet
    ELSE SliceIndex(inner,
            BaseUpperIndex_get_element_index(
                i, usize_sub(j, usize_add(i, U(1))), usize_sub(self_n, U(1))))

\* Variant of get_element_mut without `assert!(i < j)`.
SimpleUpperTriMut_get_element_mut_NoOrderAssert(i, j) ==
    IF ~debug_assert(usize_le(i, usize_sub(self_n, U(1)))) THEN PanicRet
    ELSE IF ~debug_assert(usize_le(j, usize_sub(self_n, U(1)))) THEN PanicRet
    ELSE SliceIndex(inner,
            BaseUpperIndex_get_element_index(
                i, usize_sub(j, usize_add(i, U(1))), usize_sub(self_n, U(1))))

SimpleUpperTriMut_get_element_mut(i, j) ==
    IF ~debug_assert(usize_le(i, usize_sub(self_n, U(1)))) THEN PanicRet
    ELSE IF ~debug_assert(usize_le(j, usize_sub(self_n, U(1)))) THEN PanicRet
    ELSE IF ~usize_lt(i, j) THEN PanicRet
    ELSE SliceIndex(inner,
            BaseUpperIndex_get_element_index(
                i, usize_sub(j, usize_add(i, U(1))), usize_sub(self_n, U(1))))

SimpleUpperTri_get_row_start_index(i) ==
    IF ~debug_assert(usize_le(i, usize_sub(self_n, U(1)))) THEN Unwind
    ELSE BaseUpperIndex_get_row_start_index(i, usize_sub(self_n, U(1)))

\* Variant of get_col_start_index that asks for base column j instead of j - 1.
SimpleUpperTri_get_col_start_index_ColumnNotShifted(j) ==
    IF ~debug_assert(usize_le(j, usize_sub(self_n, U(1)))) THEN Unwind
    ELSE IF ~(j # U(0)) THEN Unwind
    ELSE BaseUpperIndex_get_col_start_index(j)

SimpleUpperTri_get_col_start_index(j) ==
    IF ~debug_assert(usize_le(j, usize_sub(self_n, U(1)))) THEN Unwind
    ELSE IF ~(j # U(0)) THEN Unwind
    ELSE BaseUpperIndex_get_col_start_index(usize_sub(j, U(1)))

SimpleUpperTri_get_row_indices(i) ==
    IF ~debug_assert(usize_le(i, usize_sub(self_n, U(1)))) THEN PanicRet
    ELSE BaseUpperIndex_get_row_indices(i, usize_sub(self_n, U(1)))

\* Variant of get_col_indices that scans base column j instead of j - 1.
SimpleUpperTri_get_col_indices_ColumnNotShifted(j) ==
    IF ~debug_assert(usize_le(j, usize_sub(self_n, U(1)))) THEN PanicRet
    ELSE IF ~(j # U(0)) THEN PanicRet
    ELSE BaseUpperIndex_get_col_indices(j, usize_sub(self_n, U(1)))

SimpleUpperTri_get_col_indices(j) ==
    IF ~debug_assert(usize_le(j, usize_sub(self_n, U(1)))) THEN PanicRet
    ELSE IF ~(j # U(0)) THEN PanicRet
    ELSE BaseUpperIndex_get_col_indices(usize_sub(j, U(1)), usize_sub(self_n, U(1)))

\* Variant of iter_triangle_indices that yields the base pairs as they are.
SimpleUpperTri_iter_triangle_indices_ColumnNotShifted ==
    BaseUpperIndex_iter_triangle_indices(usize_sub(self_n, U(1)))

\* base::iter_triangle_indices(self.n() - 1).map(|(i, j)| (i, j + 1))
SimpleUpperTri_iter_triangle_indices ==
    LET pairs == BaseUpperIndex_iter_triangle_indices(usize_sub(self_n, U(1)))
        upto == BaseUpperIndex_first_pairs(usize_sub(self_n, U(1)))
        item(pair) ==
            LET column == usize_add(pair[2], U(1)) IN
            IF Panicked(column) THEN Unwind ELSE <<pair[1], column>>
    IN  Collected(pairs, [k \in 1 .. Len(upto) |-> item(upto[k])],
                  item(<<usize_sub(self_n, U(2)), usize_sub(self_n, U(2))>>))

(***************************************************************************)
(* upper/symmetric.rs                                                      *)
(***************************************************************************)
\* Variant of get_element that never swaps i and j.
SymmetricUpperTri_get_element_NoMirror(i, j) ==
    IF ~debug_assert(usize_le(i, usize_sub(self_n, U(1)))) THEN PanicRet
    ELSE IF ~debug_assert(usize_le(j, usize_sub(self_n, U(1)))) THEN PanicRet
    ELSE SliceIndex(inner,
            BaseUpperIndex_get_element_index(
                i, usize_sub(j, usize_add(i, U(1))), usize_sub(self_n, U(1))))

SymmetricUpperTri_get_element(i, j) ==
    IF ~debug_assert(usize_le(i, usize_sub(self_n, U(1)))) THEN PanicRet
    ELSE IF ~debug_assert(usize_le(j, usize_sub(self_n, U(1)))) THEN PanicRet
    ELSE IF usize_lt(i, j)
         THEN SliceIndex(inner,
                BaseUpperIndex_get_element_index(
                    i, usize_sub(j, usize_add(i, U(1))), usize_sub(self_n, U(1))))
         ELSE SliceIndex(inner,
                BaseUpperIndex_get_element_index(
                    j, usize_sub(i, usize_add(j, U(1))), usize_sub(self_n, U(1))))

SymmetricUpperTriMut_get_element_mut(i, j) ==
    IF ~debug_assert(usize_le(i, usize_sub(self_n, U(1)))) THEN PanicRet
    ELSE IF ~debug_assert(usize_le(j, usize_sub(self_n, U(1)))) THEN PanicRet
    ELSE IF usize_lt(i, j)
         THEN SliceIndex(inner,
                BaseUpperIndex_get_element_index(
                    i, usize_sub(j, usize_add(i, U(1))), usize_sub(self_n, U(1))))
         ELSE SliceIndex(inner,
                BaseUpperIndex_get_element_index(
                    j, usize_sub(i, usize_add(j, U(1))), usize_sub(self_n, U(1))))

\* Variant of get_row_indices that scans base column i instead of i - 1.
SymmetricUpperTri_get_row_indices_ColumnNotShifted(i) ==
    IF ~debug_assert(usize_le(i, usize_sub(self_n, U(1)))) THEN PanicRet
    ELSE IF i = U(0)
         THEN BaseUpperIndex_get_row_indices(i, usize_sub(self_n, U(1)))
    ELSE IF i = usize_sub(self_n, U(1))
         THEN BaseUpperIndex_get_col_indices(i, usize_sub(self_n, U(1)))
    ELSE Chain(BaseUpperIndex_get_col_indices(i, usize_sub(self_n, U(1))),
               BaseUpperIndex_get_row_indices(i, usize_sub(self_n, U(1))))

\* Variant of get_row_indices that chains the row scan before the column scan.
SymmetricUpperTri_get_row_indices_RowScanFirst(i) ==
    IF ~debug_assert(usize_le(i, usize_sub(self_n, U(1)))) THEN PanicRet
    ELSE IF i = U(0)
         THEN BaseUpperIndex_get_row_indices(i, usize_sub(self_n, U(1)))
    ELSE IF i = usize_sub(self_n, U(1))
         THEN BaseUpperIndex_get_col_indices(usize_sub(i, U(1)), usize_sub(self_n, U(1)))
    ELSE Chain(BaseUpperIndex_get_row_indices(i, usize_sub(self_n, U(1))),
               BaseUpperIndex_get_col_indices(usize_sub(i, U(1)), usize_sub(self_n, U(1))))

SymmetricUpperTri_get_row_indices(i) ==
    IF ~debug_assert(usize_le(i, usize_sub(self_n, U(1)))) THEN PanicRet
    ELSE IF i = U(0)
         THEN BaseUpperIndex_get_row_indices(i, usize_sub(self_n, U(1)))
    ELSE IF i = usize_sub(self_n, U(1))
         THEN BaseUpperIndex_get_col_indices(usize_sub(i, U(1)), usize_sub(self_n, U(1)))
    ELSE Chain(BaseUpperIndex_get_col_indices(usize_sub(i, U(1)), usize_sub(self_n, U(1))),
               BaseUpperIndex_get_row_indices(i, usize_sub(self_n, U(1))))

\* Variant of get_col_indices that scans column j of the upper triangle only.
SymmetricUpperTri_get_col_indices_ColumnScanOnly(j) ==
    SimpleUpperTri_get_col_indices(j)

SymmetricUpperTri_get_col_indices(j) == SymmetricUpperTri_get_row_indices(j)

(***************************************************************************)
(* lower/symmetric.rs: get_element mirrors (i, j) with i < j to (j, i) and *)
(* otherwise is SimpleLowerTri::get_element.                               *)
(***************************************************************************)
SymmetricLowerTri_get_element(i, j) ==
    IF usize_lt(i, j) THEN SimpleLowerTri_get_element(j, i)
    ELSE SimpleLowerTri_get_element(i, j)

\* get_element_mut applies the index computation of get_element to the
\* mutable view of the packed collection.
SymmetricLowerTriMut_get_element_mut(i, j) ==
    IF usize_lt(i, j) THEN SimpleLowerTriMut_get_element_mut(j, i)
    ELSE SimpleLowerTriMut_get_element_mut(i, j)

\* Row i of the symmetric matrix, by the other coordinate ascending: the
\* elements (i, k), k < i, are row i of the lower triangle, the elements
\* (i, k), k > i, are stored as (k, i), column i of the lower triangle.
\* Variant of get_row_indices that chains the column scan before the row scan.
SymmetricLowerTri_get_row_indices_ColumnScanFirst(i) ==
    IF i = U(0) THEN SimpleLowerTri_get_col_indices(i)
    ELSE IF i = usize_sub(self_n, U(1)) THEN SimpleLowerTri_get_row_indices(i)
    ELSE Chain(SimpleLowerTri_get_col_indices(i), SimpleLowerTri_get_row_indices(i))

SymmetricLowerTri_get_row_indices(i) ==
    IF i = U(0) THEN SimpleLowerTri_get_col_indices(i)
    ELSE IF i = usize_sub(self_n, U(1)) THEN SimpleLowerTri_get_row_indices(i)
    ELSE Chain(SimpleLowerTri_get_row_indices(i), SimpleLowerTri_get_col_indices(i))

SymmetricLowerTri_get_col_indices(j) == SymmetricLowerTri_get_row_indices(j)

(***************************************************************************)
(* Construction: `TriVec(n, Vec::from_iter(0..tri_num(n - 1)))`.           *)
(***************************************************************************)
\* Row and column arguments: the small ones, 2^32 and usize::MAX.
Args == {U(k) : k \in 0 .. MaxArg} \cup {<<0, 0, 1, 0>>, usize_MAX}

\* The values the tests store.
WriteValues == {10, 11}

\* Coordinates of a store: the small ones.
StoreArgs == {U(k) : k \in 0 .. MaxArg}

NoCall == [op |-> "none", i |-> U(0), j |-> U(0)]

Call(op, i, j) == [op |-> op, i |-> i, j |-> j]

\* Vec::from_iter(0..len)
from_iter(len) == [k \in 1 .. N(len) |-> k - 1]

Init ==
    /\ n \in 1 .. MaxN
    /\ debug_assertions \in BOOLEAN
    /\ overflow_checks \in BOOLEAN
    /\ inner = from_iter(tri_num(usize_sub(self_n, U(1))))
    /\ stores = 0
    /\ call = NoCall
    /\ ret = PanicRet

(***************************************************************************)
(* One action per method call.  A read leaves the object alone; a panic    *)
(* leaves it alone too.  A call starts when nothing borrows the object.    *)
(***************************************************************************)
Read(op, i, j, r) ==
    /\ call = NoCall
    /\ call' = Call(op, i, j)
    /\ ret' = r
    /\ UNCHANGED <<n, inner, debug_assertions, overflow_checks, stores>>

\* `*m.get_element_mut(i, j) = v`: the reference r is taken and a value v is
\* stored through it; nothing is stored when taking the reference panicked.
Store(op, i, j, r) ==
    /\ call' = Call(op, i, j)
    /\ IF r.panic
       THEN /\ ret' = r
            /\ UNCHANGED <<inner, stores>>
       ELSE \E v \in WriteValues :
                /\ ret' = [r EXCEPT !.value = v]
                /\ inner' = [inner EXCEPT ![N(r.index) + 1] = v]
                /\ stores' = stores + 1
    /\ UNCHANGED <<n, debug_assertions, overflow_checks>>

CallBaseLowerGetElementIndex ==
    \E i \in Args, j \in Args :
        Read("BaseLowerIndex::get_element_index", i, j,
             IndexRet(BaseLowerIndex_get_element_index(i, j)))

CallBaseLowerGetRowStartIndex ==
    \E i \in Args :
        Read("BaseLowerIndex::get_row_start_index", i, U(0),
             IndexRet(BaseLowerIndex_get_row_start_index(i)))

CallBaseUpperGetElementIndex ==
    \E i \in Args, j \in Args :
        Read("BaseUpperIndex::get_element_index", i, j,
             IndexRet(BaseUpperIndex_get_element_index(i, j, self_n)))

CallBaseUpperGetRowStartIndex ==
    \E i \in Args :
        Read("BaseUpperIndex::get_row_start_index", i, U(0),
             IndexRet(BaseUpperIndex_get_row_start_index(i, self_n)))

CallSimpleLowerGetElement ==
    \E i \in Args, j \in Args :
        Read("SimpleLowerTri::get_element", i, j, SimpleLowerTri_get_element(i, j))

CallSimpleLowerGetElementMut ==
    \E i \in Args, j \in Args :
        Read("SimpleLowerTriMut::get_element_mut", i, j,
             SimpleLowerTriMut_get_element_mut(i, j))

\* *m.get_element_mut(i, j) = v
StoreSimpleLowerElement ==
    /\ call = NoCall
    /\ stores < MaxStores
    /\ \E i \in StoreArgs, j \in StoreArgs :
           Store("*SimpleLowerTriMut::get_element_mut =", i, j,
                 SimpleLowerTriMut_get_element_mut(i, j))

CallSimpleUpperGetElement ==
    \E i \in Args, j \in Args :
        Read("SimpleUpperTri::get_element", i, j, SimpleUpperTri_get_element(i, j))

CallSimpleUpperGetElementMut ==
    \E i \in Args, j \in Args :
        Read("SimpleUpperTriMut::get_element_mut", i, j,
             SimpleUpperTriMut_get_element_mut(i, j))

\* *m.get_element_mut(i, j) = v
StoreSimpleUpperElement ==
    /\ call = NoCall
    /\ stores < MaxStores
    /\ \E i \in StoreArgs, j \in StoreArgs :
           Store("*SimpleUpperTriMut::get_element_mut =", i, j,
                 SimpleUpperTriMut_get_element_mut(i, j))

CallSymmetricUpperGetElement ==
    \E i \in Args, j \in Args :
        Read("SymmetricUpperTri::get_element", i, j,
             SymmetricUpperTri_get_element(i, j))

CallSymmetricUpperGetElementMut ==
    \E i \in Args, j \in Args :
        Read("SymmetricUpperTriMut::get_element_mut", i, j,
             SymmetricUpperTriMut_get_element_mut(i, j))

\* *m.get_element_mut(i, j) = v
StoreSymmetricUpperElement ==
    /\ call = NoCall
    /\ stores < MaxStores
    /\ \E i \in StoreArgs, j \in StoreArgs :
           Store("*SymmetricUpperTriMut::get_element_mut =", i, j,
                 SymmetricUpperTriMut_get_element_mut(i, j))

CallSymmetricLowerGetElement ==
    \E i \in Args, j \in Args :
        Read("SymmetricLowerTri::get_element", i, j,
             SymmetricLowerTri_get_element(i, j))

CallBaseLowerGetColStartIndex ==
    \E j \in Args :
        Read("BaseLowerIndex::get_col_start_index", U(0), j,
             IndexRet(BaseLowerIndex_get_col_start_index(j)))

CallBaseLowerGetRowIndices ==
    \E i \in Args :
        Read("BaseLowerIndex::get_row_indices", i, U(0),
             BaseLowerIndex_get_row_indices(i))

CallBaseLowerGetColIndices ==
    \E j \in Args :
        Read("BaseLowerIndex::get_col_indices", U(0), j,
             BaseLowerIndex_get_col_indices(j, self_n))

CallBaseUpperGetColStartIndex ==
    \E j \in Args :
        Read("BaseUpperIndex::get_col_start_index", U(0), j,
             IndexRet(BaseUpperIndex_get_col_start_index(j)))

CallBaseUpperGetRowIndices ==
    \E i \in Args :
        Read("BaseUpperIndex::get_row_indices", i, U(0),
             BaseUpperIndex_get_row_indices(i, self_n))

CallBaseUpperGetColIndices ==
    \E j \in Args :
        Read("BaseUpperIndex::get_col_indices", U(0), j,
             BaseUpperIndex_get_col_indices(j, self_n))

CallSimpleLowerGetRowStartIndex ==
    \E i \in Args :
        Read("SimpleLowerTri::get_row_start_index", i, U(0),
             IndexRet(SimpleLowerTri_get_row_start_index(i)))

CallSimpleLowerGetColStartIndex ==
    \E j \in Args :
        Read("SimpleLowerTri::get_col_start_index", U(0), j,
             IndexRet(SimpleLowerTri_get_col_start_index(j)))

CallSimpleLowerGetRowIndices ==
    \E i \in Args :
        Read("SimpleLowerTri::get_row_indices", i, U(0),
             SimpleLowerTri_get_row_indices(i))

CallSimpleLowerGetColIndices ==
    \E j \in Args :
        Read("SimpleLowerTri::get_col_indices", U(0), j,
             SimpleLowerTri_get_col_indices(j))

CallSimpleLowerIterTriangleIndices ==
    Read("SimpleLowerTri::iter_triangle_indices", U(0), U(0),
         SimpleLowerTri_iter_triangle_indices)

CallSimpleUpperGetRowStartIndex ==
    \E i \in Args :
        Read("SimpleUpperTri::get_row_start_index", i, U(0),
             IndexRet(SimpleUpperTri_get_row_start_index(i)))

CallSimpleUpperGetColStartIndex ==
    \E j \in Args :
        Read("SimpleUpperTri::get_col_start_index", U(0), j,
             IndexRet(SimpleUpperTri_get_col_start_index(j)))

CallSimpleUpperGetRowIndices ==
    \E i \in Args :
        Read("SimpleUpperTri::get_row_indices", i, U(0),
             SimpleUpperTri_get_row_indices(i))

CallSimpleUpperGetColIndices ==
    \E j \in Args :
        Read("SimpleUpperTri::get_col_indices", U(0), j,
             SimpleUpperTri_get_col_indices(j))

CallSimpleUpperIterTriangleIndices ==
    Read("SimpleUpperTri::iter_triangle_indices", U(0), U(0),
         SimpleUpperTri_iter_triangle_indices)

CallSymmetricUpperGetRowIndices ==
    \E i \in Args :
        Read("SymmetricUpperTri::get_row_indices", i, U(0),
             SymmetricUpperTri_get_row_indices(i))

CallSymmetricUpperGetColIndices ==
    \E j \in Args :
        Read("SymmetricUpperTri::get_col_indices", U(0), j,
             SymmetricUpperTri_get_col_indices(j))

CallSymmetricLowerGetElementMut ==
    \E i \in Args, j \in Args :
        Read("SymmetricLowerTriMut::get_element_mut", i, j,
             SymmetricLowerTriMut_get_element_mut(i, j))

\* *m.get_element_mut(i, j) = v
StoreSymmetricLowerElement ==
    /\ call = NoCall
    /\ stores < MaxStores
    /\ \E i \in StoreArgs, j \in StoreArgs :
           Store("*SymmetricLowerTriMut::get_element_mut =", i, j,
                 SymmetricLowerTriMut_get_element_mut(i, j))

CallSymmetricLowerGetRowIndices ==
    \E i \in Args :
        Read("SymmetricLowerTri::get_row_indices", i, U(0),
             SymmetricLowerTri_get_row_indices(i))

CallSymmetricLowerGetColIndices ==
    \E j \in Args :
        Read("SymmetricLowerTri::get_col_indices", U(0), j,
             SymmetricLowerTri_get_col_indices(j))

\* Arguments of tri_num: those and 2^32 - 1, the largest whose product
\* n * (n + 1) is less than 2^64.
TriArgs == Args \cup {<<Base - 1, Base - 1, 0, 0>>}

CallTriNum ==
    \E m \in TriArgs :
        Read("tri_num", m, U(0), IndexRet(tri_num(m)))

\* The caller is done with the returned index or reference.
Release ==
    /\ call # NoCall
    /\ call' = NoCall
    /\ ret' = PanicRet
    /\ UNCHANGED <<n, inner, debug_assertions, overflow_checks, stores>>

\* The calls that leave the object as it was built.
ReadNext ==
    \/ CallBaseLowerGetElementIndex
    \/ CallBaseLowerGetRowStartIndex
    \/ CallBaseUpperGetElementIndex
    \/ CallBaseUpperGetRowStartIndex
    \/ CallSimpleLowerGetElement
    \/ CallSimpleLowerGetElementMut
    \/ CallSimpleUpperGetElement
    \/ CallSimpleUpperGetElementMut
    \/ CallSymmetricUpperGetElement
    \/ CallSymmetricUpperGetElementMut
    \/ CallSymmetricLowerGetElement
    \/ CallSymmetricLowerGetElementMut
    \/ CallBaseLowerGetColStartIndex
    \/ CallBaseLowerGetRowIndices
    \/ CallBaseLowerGetColIndices
    \/ CallBaseUpperGetColStartIndex
    \/ CallBaseUpperGetRowIndices
    \/ CallBaseUpperGetColIndices
    \/ CallSimpleLowerGetRowStartIndex
    \/ CallSimpleLowerGetColStartIndex
    \/ CallSimpleLowerGetRowIndices
    \/ CallSimpleLowerGetColIndices
    \/ CallSimpleLowerIterTriangleIndices
    \/ CallSimpleUpperGetRowStartIndex
    \/ CallSimpleUpperGetColStartIndex
    \/ CallSimpleUpperGetRowIndices
    \/ CallSimpleUpperGetColIndices
    \/ CallSimpleUpperIterTriangleIndices
    \/ CallSymmetricUpperGetRowIndices
    \/ CallSymmetricUpperGetColIndices
    \/ CallSymmetricLowerGetRowIndices
    \/ CallSymmetricLowerGetColIndices
    \/ CallTriNum
    \/ Release

\* The stores through the mutable accessors.
StoreNext ==
    \/ StoreSimpleLowerElement
    \/ StoreSimpleUpperElement
    \/ StoreSymmetricUpperElement
    \/ StoreSymmetricLowerElement
    \/ Release

Next == ReadNext \/ StoreNext

Spec == Init /\ [][Next]_vars

\* A freshly built object and the calls that read it.
ReadSpec == Init /\ [][ReadNext]_vars

\* A freshly built object and the stores into it.
StoreSpec == Init /\ [][StoreNext]_vars
(***************************************************************************)
(* Properties.  TriangularNumber is the exact triangular number of a small *)
(* natural number; the coordinate sets are those of the current n.         *)
(***************************************************************************)
TriangularNumber(m) == (m * (m + 1)) \div 2

\* Rows and columns of the square matrix: [0, n).
Axis == 0 .. n - 1

\* Coordinates of the lower triangle without its diagonal.
LowerCoords == {p \in Axis \X Axis : p[2] < p[1]}

\* Coordinates of the upper triangle without its diagonal.
UpperCoords == {p \in Axis \X Axis : p[1] < p[2]}

\* Offsets of the packed collection of a triangle without its diagonal.
PackedOffsets == 0 .. TriangularNumber(n - 1) - 1

\* No call is outstanding: the properties of the index arithmetic as such are
\* evaluated on the object at rest, those of one call on the call's result.
AtRest == call = NoCall

\* The natural numbers of a sequence of usize values, and of a sequence of
\* pairs of them.
Ns(s) == [k \in 1 .. Len(s) |-> N(s[k])]

Np(s) == [k \in 1 .. Len(s) |-> <<N(s[k][1]), N(s[k][2])>>]

\* The call returned an iterator that ran to its end: no panic, in the call
\* or in a next(), and no item beyond those of seq.
Ended(r) == ~r.panic /\ ~r.panics_later /\ ~r.more

Min(a, b) == IF a < b THEN a ELSE b

Max(a, b) == IF a < b THEN b ELSE a

\* C1: on SimpleLowerTri with n >= 2, the offset get_element uses is a
\* bijection from the coordinates {(i, j) : 0 <= j < i <= n-1} onto
\* [0, tri_num(n-1)): every offset is in range, no two coordinates share one,
\* and every offset of the range belongs to exactly one coordinate.
C1_SimpleLowerOffsetBijection ==
    n >= 2 =>
        LET off(p) == SimpleLowerTri_get_element(U(p[1]), U(p[2])) IN
        /\ AtRest =>
            /\ \A p \in LowerCoords :
                   ~off(p).panic /\ N(off(p).index) \in PackedOffsets
            /\ \A p, q \in LowerCoords : N(off(p).index) = N(off(q).index) => p = q
            /\ \A k \in PackedOffsets :
                   Cardinality({p \in LowerCoords : N(off(p).index) = k}) = 1
        /\ (call.op = "SimpleLowerTri::get_element"
                /\ <<N(call.i), N(call.j)>> \in LowerCoords)
               => ~ret.panic /\ N(ret.index) = N(off(<<N(call.i), N(call.j)>>).index)

C1_Witness ==
    /\ call.op = "SimpleLowerTri::get_element"
    /\ n >= 3
    /\ <<N(call.i), N(call.j)>> \in LowerCoords
    /\ ~ret.panic
    /\ N(ret.index) = TriangularNumber(n - 1) - 1

\* C2: on SimpleUpperTri with n >= 2, the offset get_element uses over the
\* coordinates {(i, j) : 0 <= i < j <= n-1} is
\* tri_num(n-1) - tri_num(n-1-i) + (j - (i+1)), and it is a bijection onto
\* [0, tri_num(n-1)).
C2_SimpleUpperOffsetBijection ==
    n >= 2 =>
        LET off(p) == SimpleUpperTri_get_element(U(p[1]), U(p[2])) IN
        /\ AtRest =>
            /\ \A p \in UpperCoords :
                   /\ ~off(p).panic
                   /\ N(off(p).index) = TriangularNumber(n - 1)
                                       - TriangularNumber(n - 1 - p[1])
                                       + (p[2] - (p[1] + 1))
                   /\ N(off(p).index) \in PackedOffsets
            /\ \A p, q \in UpperCoords : N(off(p).index) = N(off(q).index) => p = q
            /\ \A k \in PackedOffsets :
                   Cardinality({p \in UpperCoords : N(off(p).index) = k}) = 1
        /\ (call.op = "SimpleUpperTri::get_element"
                /\ <<N(call.i), N(call.j)>> \in UpperCoords)
               => ~ret.panic /\ N(ret.index) = N(off(<<N(call.i), N(call.j)>>).index)

C2_Witness ==
    /\ call.op = "SimpleUpperTri::get_element"
    /\ n >= 3
    /\ <<N(call.i), N(call.j)>> \in UpperCoords
    /\ N(call.i) >= 1
    /\ ~ret.panic
    /\ N(ret.index) = TriangularNumber(n - 1) - 1

\* C3: on the symmetric shapes with n >= 2, for i, j in [0, n) with i # j,
\* get_element(i, j) and get_element(j, i) address the same slot, which is the
\* simple shape's slot of the ordered pair: upper (min, max), lower (max, min).
C3_SymmetricMirror ==
    n >= 2 =>
        /\ \A i \in Axis, j \in Axis :
               (AtRest /\ i # j) =>
                   /\ ~SymmetricUpperTri_get_element(U(i), U(j)).panic
                   /\ N(SymmetricUpperTri_get_element(U(i), U(j)).index)
                        = N(SymmetricUpperTri_get_element(U(j), U(i)).index)
                   /\ N(SymmetricUpperTri_get_element(U(i), U(j)).index)
                        = N(SimpleUpperTri_get_element(U(Min(i, j)), U(Max(i, j))).index)
                   /\ ~SymmetricLowerTri_get_element(U(i), U(j)).panic
                   /\ N(SymmetricLowerTri_get_element(U(i), U(j)).index)
                        = N(SymmetricLowerTri_get_element(U(j), U(i)).index)
                   /\ N(SymmetricLowerTri_get_element(U(i), U(j)).index)
                        = N(SimpleLowerTri_get_element(U(Max(i, j)), U(Min(i, j))).index)
        /\ (call.op = "SymmetricUpperTri::get_element"
                /\ N(call.i) \in Axis /\ N(call.j) \in Axis /\ N(call.i) # N(call.j))
               => ret = SymmetricUpperTri_get_element(call.j, call.i)
        /\ (call.op = "SymmetricLowerTri::get_element"
                /\ N(call.i) \in Axis /\ N(call.j) \in Axis /\ N(call.i) # N(call.j))
               => ret = SymmetricLowerTri_get_element(call.j, call.i)

C3_Witness ==
    /\ call.op = "SymmetricUpperTri::get_element"
    /\ n >= 3
    /\ N(call.i) \in Axis /\ N(call.j) \in Axis
    /\ N(call.i) > N(call.j)
    /\ N(call.j) >= 1
    /\ ~ret.panic
    /\ N(ret.index) = N(SimpleUpperTri_get_element(call.j, call.i).index)

\* The accessors of the shapes without a diagonal.
NoDiagonalAccessors ==
    { "SimpleLowerTri::get_element", "SimpleLowerTriMut::get_element_mut",
      "SimpleUpperTri::get_element", "SimpleUpperTriMut::get_element_mut",
      "SymmetricUpperTri::get_element", "SymmetricUpperTriMut::get_element_mut" }

\* C4: on every shape without a diagonal, for n >= 1 and i in [0, n),
\* get_element(i, i) and get_element_mut(i, i) fail and return no reference to
\* a packed slot, whatever the build's debug assertions and overflow checks.
C4_DiagonalAlwaysFails ==
    (call.op \in NoDiagonalAccessors /\ N(call.i) \in Axis /\ N(call.j) = N(call.i))
        => ret.panic

\* C5: SimpleLowerTri::get_element(i, j) with i, j in [0, n) fails exactly when
\* i = 0 or j >= i, and otherwise returns the slot at offset tri_num(i-1) + j,
\* the base lower element index of (i-1, j).
C5_SimpleLowerGetElement ==
    (call.op = "SimpleLowerTri::get_element" /\ N(call.i) \in Axis /\ N(call.j) \in Axis)
        => /\ ret.panic <=> (N(call.i) = 0 \/ N(call.j) >= N(call.i))
           /\ ~ret.panic =>
                /\ N(ret.index) = TriangularNumber(N(call.i) - 1) + N(call.j)
                /\ N(ret.index) = N(BaseLowerIndex_get_element_index(U(N(call.i) - 1), call.j))
                /\ ret.value = inner[N(ret.index) + 1]

C5_Witness ==
    /\ call.op = "SimpleLowerTri::get_element"
    /\ N(call.i) \in Axis /\ N(call.j) \in Axis
    /\ N(call.i) >= 2 /\ N(call.j) >= 1
    /\ ~ret.panic
    /\ N(ret.index) = TriangularNumber(N(call.i) - 1) + N(call.j)

\* C6: SimpleUpperTri::get_element(i, j) with i, j in [0, n) fails exactly when
\* j = 0 or i >= j, and otherwise returns the slot at offset
\* base upper element_index(i, j-(i+1), n-1)
\* = tri_num(n-1) - tri_num(n-1-i) + j - (i+1); for n = 5 over the packed
\* sequence 0..9, get_element(0,1) = 0, get_element(0,3) = 2, get_element(2,4) = 8.
C6_SimpleUpperGetElement ==
    /\ (call.op = "SimpleUpperTri::get_element"
            /\ N(call.i) \in Axis /\ N(call.j) \in Axis)
        => /\ ret.panic <=> (N(call.j) = 0 \/ N(call.i) >= N(call.j))
           /\ ~ret.panic =>
                /\ N(ret.index) = N(BaseUpperIndex_get_element_index(
                                   call.i, U(N(call.j) - (N(call.i) + 1)), U(n - 1)))
                /\ N(ret.index) = TriangularNumber(n - 1)
                                 - TriangularNumber(n - 1 - N(call.i))
                                 + N(call.j) - (N(call.i) + 1)
                /\ ret.value = inner[N(ret.index) + 1]
    /\ (n = 5 /\ inner = from_iter(U(10)))
        => /\ SimpleUpperTri_get_element(U(0), U(1)).value = 0
           /\ SimpleUpperTri_get_element(U(0), U(3)).value = 2
           /\ SimpleUpperTri_get_element(U(2), U(4)).value = 8

C6_Witness ==
    /\ call.op = "SimpleUpperTri::get_element"
    /\ n = 5 /\ inner = from_iter(U(10))
    /\ N(call.i) = 2 /\ N(call.j) = 4
    /\ ~ret.panic
    /\ ret.value = 8

\* C7: SimpleUpperTri over exactly tri_num(n-1) elements: for every (i, j)
\* that is no coordinate of the upper triangle (not 0 <= i < j <= n-1, pairs
\* with j >= n included), get_element and get_element_mut panic, whether or not
\* debug assertions are enabled.
C7_SimpleUpperOutsidePanics ==
    (call.op \in {"SimpleUpperTri::get_element", "SimpleUpperTriMut::get_element_mut"}
        /\ <<N(call.i), N(call.j)>> \notin UpperCoords)
        => ret.panic

\* C8: SimpleLowerTri over exactly tri_num(n-1) elements: for every (i, j)
\* that is no coordinate of the lower triangle (not 0 <= j < i <= n-1, pairs
\* with i >= n included), get_element and get_element_mut panic, whether or not
\* debug assertions are enabled.
C8_SimpleLowerOutsidePanics ==
    (call.op \in {"SimpleLowerTri::get_element", "SimpleLowerTriMut::get_element_mut"}
        /\ <<N(call.i), N(call.j)>> \notin LowerCoords)
        => ret.panic

\* Coordinates of the lower triangle with its diagonal.
LowerDiagCoords == {p \in Axis \X Axis : p[2] <= p[1]}

\* C9: base lower indexing with the diagonal, n >= 1:
\* element_index(i, j) = tri_num(i) + j over 0 <= j <= i <= n-1 is a bijection
\* onto [0, tri_num(n)); element_index(2, 1) = 4 and row_start(3) = 6 (n = 4).
C9_BaseLowerElementIndex ==
    LET off(p) == N(BaseLowerIndex_get_element_index(U(p[1]), U(p[2]))) IN
    /\ AtRest =>
        /\ \A p \in LowerDiagCoords :
               /\ off(p) = TriangularNumber(p[1]) + p[2]
               /\ off(p) \in 0 .. TriangularNumber(n) - 1
        /\ \A p, q \in LowerDiagCoords : off(p) = off(q) => p = q
        /\ \A k \in 0 .. TriangularNumber(n) - 1 :
               Cardinality({p \in LowerDiagCoords : off(p) = k}) = 1
    /\ (call.op = "BaseLowerIndex::get_element_index"
            /\ <<N(call.i), N(call.j)>> \in LowerDiagCoords)
           => ~ret.panic /\ N(ret.index) = TriangularNumber(N(call.i)) + N(call.j)
    /\ (call.op = "BaseLowerIndex::get_element_index" /\ N(call.i) = 2 /\ N(call.j) = 1)
           => N(ret.index) = 4
    /\ (call.op = "BaseLowerIndex::get_row_start_index" /\ N(call.i) = 3)
           => N(ret.index) = 6

C9_Witness ==
    /\ call.op = "BaseLowerIndex::get_element_index"
    /\ n = 4
    /\ N(call.i) = 2 /\ N(call.j) = 1
    /\ ~ret.panic
    /\ N(ret.index) = 4

\* C10, as claimed: base upper indexing with the diagonal, n >= 1: for every
\* pair with i <= j < n, element_index(i, j, n) = tri_num(n) - tri_num(n-i) + j
\* is in [0, tri_num(n)), and distinct pairs map to distinct offsets.
C10_BaseUpperAbsoluteColumn ==
    LET pairs == {p \in Axis \X Axis : p[1] <= p[2]}
        off(p) == N(BaseUpperIndex_get_element_index(U(p[1]), U(p[2]), self_n))
    IN  (call.op = "BaseUpperIndex::get_element_index"
            /\ <<N(call.i), N(call.j)>> \in pairs)
        => /\ ~ret.panic
           /\ N(ret.index) = TriangularNumber(n) - TriangularNumber(n - N(call.i)) + N(call.j)
           /\ N(ret.index) \in 0 .. TriangularNumber(n) - 1
           /\ \A q \in pairs : N(ret.index) = off(q) => q = <<N(call.i), N(call.j)>>

\* C10, amended: base upper indexing with the diagonal, n >= 1: for every row
\* i < n and every column offset j counted from the row's first (diagonal)
\* element, 0 <= j < n - i, element_index(i, j, n)
\* = tri_num(n) - tri_num(n-i) + j is in [0, tri_num(n)), and distinct pairs
\* map to distinct offsets.
C10_BaseUpperRelativeColumn ==
    LET pairs == {p \in Axis \X Axis : p[1] + p[2] < n}
        off(p) == N(BaseUpperIndex_get_element_index(U(p[1]), U(p[2]), self_n))
    IN  /\ AtRest =>
            /\ \A p \in pairs :
                   /\ off(p) = TriangularNumber(n) - TriangularNumber(n - p[1]) + p[2]
                   /\ off(p) \in 0 .. TriangularNumber(n) - 1
            /\ \A p, q \in pairs : off(p) = off(q) => p = q
        /\ (call.op = "BaseUpperIndex::get_element_index"
                /\ <<N(call.i), N(call.j)>> \in pairs)
               => ~ret.panic /\ N(ret.index) = off(<<N(call.i), N(call.j)>>)

C10_Witness ==
    /\ call.op = "BaseUpperIndex::get_element_index"
    /\ n = 4
    /\ N(call.i) = 2 /\ N(call.j) = 1
    /\ ~ret.panic
    /\ N(ret.index) = 8

(***************************************************************************)
(* Row and column scans.                                                   *)
(***************************************************************************)
\* a, a + 1, ..., b (nothing when b < a).
Interval(a, b) == [k \in 1 .. (b - a + 1) |-> a + (k - 1)]

RECURSIVE Flatten(_)
Flatten(ss) == IF ss = << >> THEN << >> ELSE Head(ss) \o Flatten(Tail(ss))

StrictlyIncreasing(s) == \A a, b \in 1 .. Len(s) : a < b => s[a] < s[b]

\* C11: base indexing with the diagonal, n >= 1: row_indices(i) is the
\* contiguous range [row_start(i), row_start(i+1)), with i+1 offsets in the
\* lower orientation (row_start(i) = tri_num(i)) and n-i offsets in the upper
\* orientation (row_start(i, n) = tri_num(n) - tri_num(n-i)); the rows
\* i = 0..n-1 concatenated are 0, 1, ..., tri_num(n)-1, each offset once,
\* increasing.
C11_BaseRowIndices ==
    LET lower(i) == BaseLowerIndex_get_row_indices(U(i))
        upper(i) == BaseUpperIndex_get_row_indices(U(i), self_n)
        upper_start(i) == TriangularNumber(n) - TriangularNumber(n - i)
    IN
    /\ AtRest =>
        /\ \A i \in Axis :
               /\ Ended(lower(i))
               /\ Ns(lower(i).seq) = Interval(TriangularNumber(i),
                                          TriangularNumber(i + 1) - 1)
               /\ N(BaseLowerIndex_get_row_start_index(U(i))) = TriangularNumber(i)
               /\ Len(Ns(lower(i).seq)) = i + 1
               /\ Ended(upper(i))
               /\ Ns(upper(i).seq) = Interval(upper_start(i), upper_start(i + 1) - 1)
               /\ N(BaseUpperIndex_get_row_start_index(U(i), self_n)) = upper_start(i)
               /\ Len(Ns(upper(i).seq)) = n - i
        /\ Flatten([k \in 1 .. n |-> Ns(lower(k - 1).seq)])
               = Interval(0, TriangularNumber(n) - 1)
        /\ Flatten([k \in 1 .. n |-> Ns(upper(k - 1).seq)])
               = Interval(0, TriangularNumber(n) - 1)
    /\ (call.op = "BaseLowerIndex::get_row_indices" /\ N(call.i) \in Axis)
           => /\ Ended(ret)
              /\ Ns(ret.seq) = Interval(TriangularNumber(N(call.i)),
                                    TriangularNumber(N(call.i) + 1) - 1)
    /\ (call.op = "BaseUpperIndex::get_row_indices" /\ N(call.i) \in Axis)
           => /\ Ended(ret)
              /\ Ns(ret.seq) = Interval(upper_start(N(call.i)), upper_start(N(call.i) + 1) - 1)

C11_Witness ==
    /\ call.op = "BaseUpperIndex::get_row_indices"
    /\ n = 4
    /\ N(call.i) = 1
    /\ Ended(ret)
    /\ Ns(ret.seq) = <<4, 5, 6>>

\* C12: base col_indices with the diagonal, n >= 1, j in [0, n): the lower
\* orientation yields n-j offsets, row_start(r) + j for r = j..n-1; the upper
\* orientation yields j+1 offsets, row_start(r, n) + j - r for r = 0..j; each
\* sequence is strictly increasing and holds exactly the offsets of column j's
\* elements.  n = 4: lower col_indices(1) = [2, 4, 7], upper col_indices(3)
\* = [3, 6, 8, 9].
C12_BaseColIndices ==
    LET lower(j) == BaseLowerIndex_get_col_indices(U(j), self_n)
        upper(j) == BaseUpperIndex_get_col_indices(U(j), self_n)
        upper_start(i) == TriangularNumber(n) - TriangularNumber(n - i)
        lower_col(j) == [k \in 1 .. n - j |-> TriangularNumber(j + k - 1) + j]
        upper_col(j) == [k \in 1 .. j + 1 |-> upper_start(k - 1) + j - (k - 1)]
    IN
    /\ AtRest =>
        \A j \in Axis :
            /\ Ended(lower(j))
            /\ Ns(lower(j).seq) = lower_col(j)
            /\ Len(Ns(lower(j).seq)) = n - j
            /\ StrictlyIncreasing(Ns(lower(j).seq))
            /\ \A k \in 1 .. n - j :
                   Ns(lower(j).seq)[k] = N(BaseLowerIndex_get_element_index(U(j + k - 1), U(j)))
            /\ Ended(upper(j))
            /\ Ns(upper(j).seq) = upper_col(j)
            /\ Len(Ns(upper(j).seq)) = j + 1
            /\ StrictlyIncreasing(Ns(upper(j).seq))
            /\ \A k \in 1 .. j + 1 :
                   Ns(upper(j).seq)[k]
                     = N(BaseUpperIndex_get_element_index(U(k - 1), U(j - (k - 1)), self_n))
    /\ (call.op = "BaseLowerIndex::get_col_indices" /\ N(call.j) \in Axis)
           => /\ Ended(ret)
              /\ Ns(ret.seq) = lower_col(N(call.j))
              /\ (n = 4 /\ N(call.j) = 1) => Ns(ret.seq) = <<2, 4, 7>>
    /\ (call.op = "BaseUpperIndex::get_col_indices" /\ N(call.j) \in Axis)
           => /\ Ended(ret)
              /\ Ns(ret.seq) = upper_col(N(call.j))
              /\ (n = 4 /\ N(call.j) = 3) => Ns(ret.seq) = <<3, 6, 8, 9>>

C12_Witness ==
    /\ call.op = "BaseUpperIndex::get_col_indices"
    /\ n = 4
    /\ N(call.j) = 3
    /\ Ended(ret)
    /\ Ns(ret.seq) = <<3, 6, 8, 9>>

\* C13: simple shapes, n >= 2: get_row_indices(i) yields the offsets of row
\* i's valid coordinates by ascending column, i offsets for the lower rows
\* 1..n-1 and n-1-i offsets for the upper rows 0..n-2; the non-empty rows
\* concatenated in ascending i are 0, 1, ..., tri_num(n-1)-1, each once and
\* increasing, so no two rows share an offset.
C13_SimpleRowIndices ==
    LET lower(i) == SimpleLowerTri_get_row_indices(U(i))
        upper(i) == SimpleUpperTri_get_row_indices(U(i))
        lower_row(i) == [k \in 1 .. i |-> N(SimpleLowerTri_get_element(U(i), U(k - 1)).index)]
        upper_row(i) ==
            [k \in 1 .. n - 1 - i |-> N(SimpleUpperTri_get_element(U(i), U(i + k)).index)]
    IN
    /\ AtRest =>
        /\ \A i \in 1 .. n - 1 :
               /\ Ended(lower(i))
               /\ Ns(lower(i).seq) = lower_row(i)
               /\ Len(Ns(lower(i).seq)) = i
        /\ \A i \in 0 .. n - 2 :
               /\ Ended(upper(i))
               /\ Ns(upper(i).seq) = upper_row(i)
               /\ Len(Ns(upper(i).seq)) = n - 1 - i
        /\ Flatten([k \in 1 .. n - 1 |-> Ns(lower(k).seq)]) = from_iter(U(Len(inner)))
        /\ Flatten([k \in 1 .. n - 1 |-> Ns(upper(k - 1).seq)]) = from_iter(U(Len(inner)))
        /\ Len(inner) = TriangularNumber(n - 1)
        /\ \A a, b \in 1 .. n - 1 :
               a # b => \A x \in 1 .. Len(Ns(lower(a).seq)), y \in 1 .. Len(Ns(lower(b).seq)) :
                           Ns(lower(a).seq)[x] # Ns(lower(b).seq)[y]
        /\ \A a, b \in 0 .. n - 2 :
               a # b => \A x \in 1 .. Len(Ns(upper(a).seq)), y \in 1 .. Len(Ns(upper(b).seq)) :
                           Ns(upper(a).seq)[x] # Ns(upper(b).seq)[y]
    /\ (call.op = "SimpleLowerTri::get_row_indices" /\ N(call.i) \in 1 .. n - 1)
           => Ended(ret) /\ Ns(ret.seq) = lower_row(N(call.i))
    /\ (call.op = "SimpleUpperTri::get_row_indices" /\ N(call.i) \in 0 .. n - 2)
           => Ended(ret) /\ Ns(ret.seq) = upper_row(N(call.i))

C13_Witness ==
    /\ call.op = "SimpleLowerTri::get_row_indices"
    /\ n = 5
    /\ N(call.i) = 3
    /\ Ended(ret)
    /\ Ns(ret.seq) = <<3, 4, 5>>

\* C14: SimpleLowerTri::get_col_indices(j), n >= 2, j in [0, n-1]: the base
\* lower col_indices(j, n-1); n-1-j strictly increasing offsets, the
\* get_element offsets of (i, j) for i = j+1..n-1 in ascending i, none for
\* j = n-1.  n = 5: get_col_indices(1) = [2, 4, 7], get_col_indices(3) = [9].
C14_SimpleLowerColIndices ==
    LET col(j) == SimpleLowerTri_get_col_indices(U(j))
        lower_col(j) ==
            [k \in 1 .. n - 1 - j |-> N(SimpleLowerTri_get_element(U(j + k), U(j)).index)]
    IN
    /\ (AtRest /\ n >= 2) =>
        /\ \A j \in Axis :
               /\ Ended(col(j))
               /\ col(j) = BaseLowerIndex_get_col_indices(U(j), U(n - 1))
               /\ Len(Ns(col(j).seq)) = n - 1 - j
               /\ StrictlyIncreasing(Ns(col(j).seq))
               /\ Ns(col(j).seq) = lower_col(j)
               /\ \A k \in 1 .. n - 1 - j :
                      ~SimpleLowerTri_get_element(U(j + k), U(j)).panic
        /\ Ns(col(n - 1).seq) = << >>
    /\ (call.op = "SimpleLowerTri::get_col_indices" /\ N(call.j) \in Axis /\ n >= 2)
           => /\ Ended(ret)
              /\ Ns(ret.seq) = lower_col(N(call.j))
              /\ (n = 5 /\ N(call.j) = 1) => Ns(ret.seq) = <<2, 4, 7>>
              /\ (n = 5 /\ N(call.j) = 3) => Ns(ret.seq) = <<9>>

C14_Witness ==
    /\ call.op = "SimpleLowerTri::get_col_indices"
    /\ n = 5
    /\ N(call.j) = 1
    /\ Ended(ret)
    /\ Ns(ret.seq) = <<2, 4, 7>>

\* C15: SimpleUpperTri::get_col_indices(j), n >= 2: fails for j = 0; for j in
\* [1, n-1] it is the base upper col_indices(j-1, n-1): j strictly increasing
\* offsets, the get_element offsets of (r, j) for r = 0..j-1 in ascending r.
\* n = 5: get_col_indices(2) = [1, 4], get_col_indices(4) = [3, 6, 8, 9].
C15_SimpleUpperColIndices ==
    LET col(j) == SimpleUpperTri_get_col_indices(U(j))
        upper_col(j) == [k \in 1 .. j |-> N(SimpleUpperTri_get_element(U(k - 1), U(j)).index)]
    IN
    /\ (AtRest /\ n >= 2) =>
        /\ col(0).panic
        /\ \A j \in 1 .. n - 1 :
               /\ Ended(col(j))
               /\ col(j) = BaseUpperIndex_get_col_indices(U(j - 1), U(n - 1))
               /\ Len(Ns(col(j).seq)) = j
               /\ StrictlyIncreasing(Ns(col(j).seq))
               /\ Ns(col(j).seq) = upper_col(j)
               /\ \A k \in 1 .. j : ~SimpleUpperTri_get_element(U(k - 1), U(j)).panic
    /\ (call.op = "SimpleUpperTri::get_col_indices" /\ N(call.j) = 0 /\ n >= 2)
           => ret.panic
    /\ (call.op = "SimpleUpperTri::get_col_indices" /\ N(call.j) \in 1 .. n - 1)
           => /\ Ended(ret)
              /\ Ns(ret.seq) = upper_col(N(call.j))
              /\ (n = 5 /\ N(call.j) = 2) => Ns(ret.seq) = <<1, 4>>
              /\ (n = 5 /\ N(call.j) = 4) => Ns(ret.seq) = <<3, 6, 8, 9>>

C15_Witness ==
    /\ call.op = "SimpleUpperTri::get_col_indices"
    /\ n = 5
    /\ N(call.j) = 4
    /\ Ended(ret)
    /\ Ns(ret.seq) = <<3, 6, 8, 9>>

\* C16: a row or column wholly outside the triangle: for every n,
\* SimpleLowerTri::get_row_start_index(0) and get_row_indices(0) fail and
\* SimpleUpperTri::get_col_start_index(0) fails; for every other index in
\* [0, n), a non-empty row i in 1..n-1 (lower) or column j in 1..n-1 (upper),
\* these operations return without failing.
C16_EmptyRowOrColumnFails ==
    /\ (call.op \in {"SimpleLowerTri::get_row_start_index",
                      "SimpleLowerTri::get_row_indices"} /\ N(call.i) = 0)
           => ret.panic
    /\ (call.op = "SimpleUpperTri::get_col_start_index" /\ N(call.j) = 0)
           => ret.panic
    /\ (call.op \in {"SimpleLowerTri::get_row_start_index",
                      "SimpleLowerTri::get_row_indices"} /\ N(call.i) \in 1 .. n - 1)
           => ~ret.panic
    /\ (call.op = "SimpleUpperTri::get_col_start_index" /\ N(call.j) \in 1 .. n - 1)
           => ~ret.panic
    /\ AtRest =>
        /\ Panicked(SimpleLowerTri_get_row_start_index(U(0)))
        /\ SimpleLowerTri_get_row_indices(U(0)).panic
        /\ Panicked(SimpleUpperTri_get_col_start_index(U(0)))
        /\ \A x \in 1 .. n - 1 :
               /\ ~Panicked(SimpleLowerTri_get_row_start_index(U(x)))
               /\ ~SimpleLowerTri_get_row_indices(U(x)).panic
               /\ ~Panicked(SimpleUpperTri_get_col_start_index(U(x)))

C16_Witness ==
    /\ call.op = "SimpleLowerTri::get_row_start_index"
    /\ N(call.i) = 0
    /\ ~debug_assertions
    /\ ~overflow_checks
    /\ ret.panic

\* The k-th other coordinate of row or column x, ascending, x itself left out.
Other(x, k) == IF k - 1 < x THEN k - 1 ELSE k

\* C17: SymmetricUpperTri::get_row_indices(i), n >= 2, i in [0, n): n-1
\* offsets, the get_element offsets of (i, k) for k = 0..n-1, k # i, in
\* ascending k, strictly increasing.  n = 5: rows [0,1,2,3], [0,4,5,6],
\* [1,4,7,8], [2,5,7,9], [3,6,8,9].
C17_SymmetricUpperRowIndices ==
    LET row(i) == SymmetricUpperTri_get_row_indices(U(i))
        elements(i) ==
            [k \in 1 .. n - 1 |-> N(SymmetricUpperTri_get_element(U(i), U(Other(i, k))).index)]
    IN
    /\ (AtRest /\ n >= 2) =>
        /\ \A i \in Axis :
               /\ Ended(row(i))
               /\ Len(Ns(row(i).seq)) = n - 1
               /\ Ns(row(i).seq) = elements(i)
               /\ \A k \in 1 .. n - 1 :
                      ~SymmetricUpperTri_get_element(U(i), U(Other(i, k))).panic
               /\ StrictlyIncreasing(Ns(row(i).seq))
        /\ n = 5 =>
               /\ Ns(row(0).seq) = <<0, 1, 2, 3>>
               /\ Ns(row(1).seq) = <<0, 4, 5, 6>>
               /\ Ns(row(2).seq) = <<1, 4, 7, 8>>
               /\ Ns(row(3).seq) = <<2, 5, 7, 9>>
               /\ Ns(row(4).seq) = <<3, 6, 8, 9>>
    /\ (call.op = "SymmetricUpperTri::get_row_indices" /\ N(call.i) \in Axis /\ n >= 2)
           => /\ Ended(ret)
              /\ Ns(ret.seq) = elements(N(call.i))

C17_Witness ==
    /\ call.op = "SymmetricUpperTri::get_row_indices"
    /\ n = 5
    /\ N(call.i) = 2
    /\ Ended(ret)
    /\ Ns(ret.seq) = <<1, 4, 7, 8>>

\* C18: symmetric shapes, either orientation, n >= 2, x in [0, n):
\* get_col_indices(x) yields the same offsets in the same order as
\* get_row_indices(x); they are the offsets get_element gives for the
\* elements (k, x) of column x, k # x ascending.
C18_SymmetricColIsRow ==
    LET other(x, k) == IF k - 1 < x THEN k - 1 ELSE k IN
    /\ (AtRest /\ n >= 2) =>
        \A x \in Axis :
            /\ Ended(SymmetricUpperTri_get_col_indices(U(x)))
            /\ Ns(SymmetricUpperTri_get_col_indices(U(x)).seq)
                   = Ns(SymmetricUpperTri_get_row_indices(U(x)).seq)
            /\ Ns(SymmetricUpperTri_get_col_indices(U(x)).seq)
                   = [k \in 1 .. n - 1 |->
                         N(SymmetricUpperTri_get_element(U(other(x, k)), U(x)).index)]
            /\ Ended(SymmetricLowerTri_get_col_indices(U(x)))
            /\ Ns(SymmetricLowerTri_get_col_indices(U(x)).seq)
                   = Ns(SymmetricLowerTri_get_row_indices(U(x)).seq)
            /\ Ns(SymmetricLowerTri_get_col_indices(U(x)).seq)
                   = [k \in 1 .. n - 1 |->
                         N(SymmetricLowerTri_get_element(U(other(x, k)), U(x)).index)]
    /\ (call.op = "SymmetricUpperTri::get_col_indices" /\ N(call.j) \in Axis /\ n >= 2)
           => /\ Ended(ret)
              /\ Ns(ret.seq) = Ns(SymmetricUpperTri_get_row_indices(call.j).seq)
    /\ (call.op = "SymmetricLowerTri::get_col_indices" /\ N(call.j) \in Axis /\ n >= 2)
           => /\ Ended(ret)
              /\ Ns(ret.seq) = Ns(SymmetricLowerTri_get_row_indices(call.j).seq)
              /\ (n = 5 /\ N(call.j) = 2) => Ns(ret.seq) = <<1, 2, 5, 8>>
              /\ (n = 5 /\ N(call.j) = 4) => Ns(ret.seq) = <<6, 7, 8, 9>>

C18_Witness ==
    /\ call.op = "SymmetricUpperTri::get_col_indices"
    /\ n = 5
    /\ N(call.j) = 3
    /\ Ended(ret)
    /\ Ns(ret.seq) = <<2, 5, 7, 9>>
    /\ Ns(ret.seq) = Ns(SymmetricUpperTri_get_row_indices(U(3)).seq)

\* C19: SymmetricLowerTri::get_row_indices(i), n >= 2, i in [0, n): n-1
\* offsets, the symmetric-lower get_element offsets of (i, k) for k = 0..n-1,
\* k # i, by ascending k.  n = 5: rows [0,1,3,6], [0,2,4,7], [1,2,5,8],
\* [3,4,5,9], [6,7,8,9].
C19_SymmetricLowerRowIndices ==
    LET row(i) == SymmetricLowerTri_get_row_indices(U(i))
        elements(i) ==
            [k \in 1 .. n - 1 |-> N(SymmetricLowerTri_get_element(U(i), U(Other(i, k))).index)]
    IN
    /\ (AtRest /\ n >= 2) =>
        /\ \A i \in Axis :
               /\ Ended(row(i))
               /\ Len(Ns(row(i).seq)) = n - 1
               /\ Ns(row(i).seq) = elements(i)
               /\ \A k \in 1 .. n - 1 :
                      ~SymmetricLowerTri_get_element(U(i), U(Other(i, k))).panic
        /\ n = 5 =>
               /\ Ns(row(0).seq) = <<0, 1, 3, 6>>
               /\ Ns(row(1).seq) = <<0, 2, 4, 7>>
               /\ Ns(row(2).seq) = <<1, 2, 5, 8>>
               /\ Ns(row(3).seq) = <<3, 4, 5, 9>>
               /\ Ns(row(4).seq) = <<6, 7, 8, 9>>
    /\ (call.op = "SymmetricLowerTri::get_row_indices" /\ N(call.i) \in Axis /\ n >= 2)
           => /\ Ended(ret)
              /\ Ns(ret.seq) = elements(N(call.i))

C19_Witness ==
    /\ call.op = "SymmetricLowerTri::get_row_indices"
    /\ n = 5
    /\ N(call.i) = 2
    /\ Ended(ret)
    /\ Ns(ret.seq) = <<1, 2, 5, 8>>

\* Row-major order of coordinate pairs: ascending i, then ascending j.
RowMajor(s) ==
    \A a, b \in 1 .. Len(s) :
        a < b => \/ s[a][1] < s[b][1]
                 \/ s[a][1] = s[b][1] /\ s[a][2] < s[b][2]

\* C20: iter_triangle_indices on the simple shapes, n >= 2: every valid
\* coordinate pair exactly once and no other pair, in row-major order;
\* SimpleLowerTri yields the pairs 0 <= j < i <= n-1 starting at (1, 0),
\* SimpleUpperTri the pairs 0 <= i < j <= n-1 starting at (0, 1);
\* tri_num(n-1) pairs.
C20_IterTriangleIndices ==
    LET Enumerates(s, coords) ==
            /\ Len(s) = TriangularNumber(n - 1)
            /\ {s[k] : k \in 1 .. Len(s)} = coords
            /\ RowMajor(s)
    IN
    /\ (call.op = "SimpleLowerTri::iter_triangle_indices" /\ n >= 2)
           => /\ Ended(ret)
              /\ Enumerates(Np(ret.seq), LowerCoords)
              /\ Np(ret.seq)[1] = <<1, 0>>
              /\ n = 5 => Np(ret.seq) = << <<1, 0>>,
                                       <<2, 0>>, <<2, 1>>,
                                       <<3, 0>>, <<3, 1>>, <<3, 2>>,
                                       <<4, 0>>, <<4, 1>>, <<4, 2>>, <<4, 3>> >>
    /\ (call.op = "SimpleUpperTri::iter_triangle_indices" /\ n >= 2)
           => /\ Ended(ret)
              /\ Enumerates(Np(ret.seq), UpperCoords)
              /\ Np(ret.seq)[1] = <<0, 1>>
              /\ n = 5 => Np(ret.seq) = << <<0, 1>>, <<0, 2>>, <<0, 3>>, <<0, 4>>,
                                       <<1, 2>>, <<1, 3>>, <<1, 4>>,
                                       <<2, 3>>, <<2, 4>>,
                                       <<3, 4>> >>

C20_Witness ==
    /\ call.op = "SimpleLowerTri::iter_triangle_indices"
    /\ n = 4
    /\ Ended(ret)
    /\ Np(ret.seq) = << <<1, 0>>, <<2, 0>>, <<2, 1>>, <<3, 0>>, <<3, 1>>, <<3, 2>> >>

(***************************************************************************)
(* Triangular numbers.                                                     *)
(***************************************************************************)
\* 0 + 1 + ... + m
RECURSIVE SumTo(_)
SumTo(m) == IF m = 0 THEN 0 ELSE m + SumTo(m - 1)

\* The sixteen bytes of the exact product m * (m + 1), m < usize::MAX.
ExactProduct(m) == widening_mul(m, overflowing_add(m, U(1)).value)

\* m * (m + 1) is less than 2^64.
ProductFits(m) ==
    m # usize_MAX /\ \A k \in 9 .. 16 : ExactProduct(m)[k] = 0

\* m * (m + 1) / 2 is less than 2^64.
TriangularFits(m) ==
    /\ m # usize_MAX
    /\ ExactProduct(m)[9] <= 1
    /\ \A k \in 10 .. 16 : ExactProduct(m)[k] = 0

\* The exact m * (m + 1) / 2 as a usize, where it is less than 2^64.
Triangular(m) ==
    LET p == ExactProduct(m)
        half(k) == p[k] \div 2 + 128 * (p[k + 1] % 2)
    IN  <<half(1) + 256 * half(2), half(3) + 256 * half(4),
          half(5) + 256 * half(6), half(7) + 256 * half(8)>>

\* C21: tri_num(m) = m*(m+1)/2 = 0 + 1 + ... + m for every m >= 0 whose
\* product m*(m+1) fits the word; tri_num(0) = 0 and
\* tri_num(m+1) = tri_num(m) + m + 1.
C21_TriNumFormula ==
    /\ (call.op = "tri_num" /\ ProductFits(call.i))
           => /\ ~ret.panic
              /\ ret.index = Triangular(call.i)
              /\ N(call.i) \in 0 .. MaxArg =>
                     /\ N(ret.index) = (N(call.i) * (N(call.i) + 1)) \div 2
                     /\ N(ret.index) = SumTo(N(call.i))
              /\ call.i = U(0) => ret.index = U(0)
              /\ call.i = <<Base - 1, Base - 1, 0, 0>>
                     => ret.index = <<0, Base \div 2, Base - 1, Base \div 2 - 1>>
    /\ AtRest =>
        /\ tri_num(U(0)) = U(0)
        /\ \A m \in 0 .. MaxArg :
               N(tri_num(U(m + 1))) = N(tri_num(U(m))) + m + 1

C21_Witness ==
    /\ call.op = "tri_num"
    /\ call.i = <<Base - 1, Base - 1, 0, 0>>
    /\ ~ret.panic
    /\ ret.index = <<0, Base \div 2, Base - 1, Base \div 2 - 1>>

\* C22: tri_num does not overflow on supported axis lengths: for every m
\* whose triangular number m*(m+1)/2 is less than 2^64, tri_num(m) returns
\* exactly m*(m+1)/2.
C22_TriNumNoOverflow ==
    (call.op = "tri_num" /\ TriangularFits(call.i))
        => /\ ~ret.panic
           /\ ret.index = Triangular(call.i)

(***************************************************************************)
(* Mutable accessors.                                                      *)
(***************************************************************************)
\* C23: write-then-read through the mutable accessors: for every shape
\* (simple lower, simple upper, symmetric upper) and every valid (i, j), a
\* store of v through get_element_mut(i, j) succeeds, get_element(i, j) then
\* reads v, every other slot of the packed sequence, its length and n are
\* unchanged; on the symmetric shape get_element(j, i) reads v as well.
C23_WriteThenRead ==
    /\ [][
        /\ (/\ call = NoCall
            /\ \/ /\ call'.op = "*SimpleLowerTriMut::get_element_mut ="
                  /\ <<N(call'.i), N(call'.j)>> \in LowerCoords
               \/ /\ call'.op = "*SimpleUpperTriMut::get_element_mut ="
                  /\ <<N(call'.i), N(call'.j)>> \in UpperCoords
               \/ /\ call'.op = "*SymmetricUpperTriMut::get_element_mut ="
                  /\ N(call'.i) \in Axis /\ N(call'.j) \in Axis
                  /\ N(call'.i) # N(call'.j))
               => /\ ~ret'.panic
                  /\ ret'.value \in WriteValues
                  /\ N(ret'.index) + 1 \in 1 .. Len(inner)
                  /\ inner' = [inner EXCEPT ![N(ret'.index) + 1] = ret'.value]
                  /\ \A k \in 1 .. Len(inner) :
                         k # N(ret'.index) + 1 => inner'[k] = inner[k]
                  /\ Len(inner') = Len(inner)
                  /\ n' = n
       ]_vars
    /\ [](/\ (/\ call.op = "*SimpleLowerTriMut::get_element_mut ="
              /\ <<N(call.i), N(call.j)>> \in LowerCoords)
                 => /\ ~SimpleLowerTri_get_element(call.i, call.j).panic
                    /\ SimpleLowerTri_get_element(call.i, call.j).value = ret.value
          /\ (/\ call.op = "*SimpleUpperTriMut::get_element_mut ="
              /\ <<N(call.i), N(call.j)>> \in UpperCoords)
                 => /\ ~SimpleUpperTri_get_element(call.i, call.j).panic
                    /\ SimpleUpperTri_get_element(call.i, call.j).value = ret.value
          /\ (/\ call.op = "*SymmetricUpperTriMut::get_element_mut ="
              /\ N(call.i) \in Axis /\ N(call.j) \in Axis /\ N(call.i) # N(call.j))
                 => /\ ~SymmetricUpperTri_get_element(call.i, call.j).panic
                    /\ SymmetricUpperTri_get_element(call.i, call.j).value = ret.value
                    /\ SymmetricUpperTri_get_element(call.j, call.i).value = ret.value)

\* The second store of the symmetric test: (3, 1) = 10, then (2, 3) = 11.
C23_Witness ==
    /\ call.op = "*SymmetricUpperTriMut::get_element_mut ="
    /\ n = 5
    /\ N(call.i) = 2 /\ N(call.j) = 3
    /\ ~ret.panic
    /\ stores = 2
    /\ inner = <<0, 1, 2, 3, 4, 10, 6, 11, 8, 9>>
    /\ SymmetricUpperTri_get_element(U(1), U(3)).value = 10
    /\ SymmetricUpperTri_get_element(U(3), U(2)).value = 11

(***************************************************************************)
(* Size of the packed collection.                                          *)
(***************************************************************************)
SimpleAccessors == {"SimpleLowerTri::get_element", "SimpleUpperTri::get_element"}

\* Offsets addressed by the valid coordinates of the two simple shapes.
SimpleLowerOffsets == {N(SimpleLowerTri_get_element(U(p[1]), U(p[2])).index) : p \in LowerCoords}

SimpleUpperOffsets == {N(SimpleUpperTri_get_element(U(p[1]), U(p[2])).index) : p \in UpperCoords}

\* C24: a simple lower or upper triangle with axis length n contains
\* tri_num(n) elements in n - 1 rows and columns: the offsets addressed by
\* the valid coordinates of the shape are exactly [0, tri_num(n)).
C24_TriNumOfAxisElements ==
    (call.op \in SimpleAccessors /\ ~ret.panic /\ n >= 2)
        => /\ SimpleLowerOffsets = 0 .. TriangularNumber(n) - 1
           /\ SimpleUpperOffsets = 0 .. TriangularNumber(n) - 1

\* C25: mutable and immutable accessors agree: for every n and every (i, j)
\* with i, j in [0, n), get_element_mut(i, j) fails on exactly the coordinates
\* on which get_element(i, j) fails and otherwise addresses the same offset,
\* for the simple lower, simple upper and symmetric upper shapes.
C25_MutAgreesWithGet ==
    LET Agree(m, g) ==
            /\ m.panic <=> g.panic
            /\ ~m.panic => m.index = g.index
    IN
    /\ AtRest =>
        \A i, j \in Axis :
            /\ Agree(SimpleLowerTriMut_get_element_mut(U(i), U(j)),
                     SimpleLowerTri_get_element(U(i), U(j)))
            /\ Agree(SimpleUpperTriMut_get_element_mut(U(i), U(j)),
                     SimpleUpperTri_get_element(U(i), U(j)))
            /\ Agree(SymmetricUpperTriMut_get_element_mut(U(i), U(j)),
                     SymmetricUpperTri_get_element(U(i), U(j)))
    /\ (call.op = "SimpleLowerTriMut::get_element_mut"
            /\ N(call.i) \in Axis /\ N(call.j) \in Axis)
           => Agree(ret, SimpleLowerTri_get_element(call.i, call.j))
    /\ (call.op = "SimpleUpperTriMut::get_element_mut"
            /\ N(call.i) \in Axis /\ N(call.j) \in Axis)
           => Agree(ret, SimpleUpperTri_get_element(call.i, call.j))
    /\ (call.op = "SymmetricUpperTriMut::get_element_mut"
            /\ N(call.i) \in Axis /\ N(call.j) \in Axis)
           => Agree(ret, SymmetricUpperTri_get_element(call.i, call.j))

C25_Witness ==
    /\ call.op = "SimpleUpperTriMut::get_element_mut"
    /\ n = 5
    /\ N(call.i) = 2 /\ N(call.j) = 4
    /\ ~ret.panic
    /\ N(ret.index) = 8
    /\ N(SimpleUpperTri_get_element(U(2), U(4)).index) = 8

(***************************************************************************)
(* Start indices.                                                          *)
(***************************************************************************)
\* C26: start indices name the first element of their row or column on the
\* simple shapes, n >= 2.  SimpleLowerTri: get_row_start_index(i) = offset of
\* (i, 0) = first item of get_row_indices(i), i in 1..n-1;
\* get_col_start_index(j) = tri_num(j) + j = offset of (j+1, j) = first item
\* of get_col_indices(j), j in 0..n-2.  SimpleUpperTri: get_row_start_index(i)
\* = offset of (i, i+1) = first item of get_row_indices(i), i in 0..n-2;
\* get_col_start_index(j) = j - 1 = offset of (0, j) = first item of
\* get_col_indices(j), j in 1..n-1.
C26_StartIndices ==
    LET lower_row(i) ==
            /\ N(SimpleLowerTri_get_element(U(i), U(0)).index)
                 = Ns(SimpleLowerTri_get_row_indices(U(i)).seq)[1]
            /\ ~SimpleLowerTri_get_element(U(i), U(0)).panic
        lower_col(j) ==
            /\ N(SimpleLowerTri_get_element(U(j + 1), U(j)).index)
                 = Ns(SimpleLowerTri_get_col_indices(U(j)).seq)[1]
            /\ ~SimpleLowerTri_get_element(U(j + 1), U(j)).panic
        upper_row(i) ==
            /\ N(SimpleUpperTri_get_element(U(i), U(i + 1)).index)
                 = Ns(SimpleUpperTri_get_row_indices(U(i)).seq)[1]
            /\ ~SimpleUpperTri_get_element(U(i), U(i + 1)).panic
        upper_col(j) ==
            /\ N(SimpleUpperTri_get_element(U(0), U(j)).index)
                 = Ns(SimpleUpperTri_get_col_indices(U(j)).seq)[1]
            /\ ~SimpleUpperTri_get_element(U(0), U(j)).panic
    IN
    /\ (AtRest /\ n >= 2) =>
        /\ \A i \in 1 .. n - 1 :
               /\ lower_row(i)
               /\ N(SimpleLowerTri_get_row_start_index(U(i)))
                      = N(SimpleLowerTri_get_element(U(i), U(0)).index)
        /\ \A j \in 0 .. n - 2 :
               /\ lower_col(j)
               /\ N(SimpleLowerTri_get_col_start_index(U(j))) = TriangularNumber(j) + j
               /\ N(SimpleLowerTri_get_col_start_index(U(j)))
                      = N(SimpleLowerTri_get_element(U(j + 1), U(j)).index)
        /\ N(SimpleLowerTri_get_col_start_index(U(0))) = 0
        /\ \A i \in 0 .. n - 2 :
               /\ upper_row(i)
               /\ N(SimpleUpperTri_get_row_start_index(U(i)))
                      = N(SimpleUpperTri_get_element(U(i), U(i + 1)).index)
        /\ \A j \in 1 .. n - 1 :
               /\ upper_col(j)
               /\ N(SimpleUpperTri_get_col_start_index(U(j))) = j - 1
               /\ N(SimpleUpperTri_get_col_start_index(U(j)))
                      = N(SimpleUpperTri_get_element(U(0), U(j)).index)
    /\ (call.op = "SimpleLowerTri::get_row_start_index" /\ N(call.i) \in 1 .. n - 1)
           => /\ ~ret.panic
              /\ N(ret.index) = N(SimpleLowerTri_get_element(call.i, U(0)).index)
              /\ lower_row(N(call.i))
    /\ (call.op = "SimpleLowerTri::get_col_start_index" /\ N(call.j) \in 0 .. n - 2)
           => /\ ~ret.panic
              /\ N(ret.index) = TriangularNumber(N(call.j)) + N(call.j)
              /\ N(ret.index) = N(SimpleLowerTri_get_element(U(N(call.j) + 1), call.j).index)
              /\ lower_col(N(call.j))
    /\ (call.op = "SimpleUpperTri::get_row_start_index" /\ N(call.i) \in 0 .. n - 2)
           => /\ ~ret.panic
              /\ N(ret.index) = N(SimpleUpperTri_get_element(call.i, U(N(call.i) + 1)).index)
              /\ upper_row(N(call.i))
    /\ (call.op = "SimpleUpperTri::get_col_start_index" /\ N(call.j) \in 1 .. n - 1)
           => /\ ~ret.panic
              /\ N(ret.index) = N(call.j) - 1
              /\ N(ret.index) = N(SimpleUpperTri_get_element(U(0), call.j).index)
              /\ upper_col(N(call.j))

C26_Witness ==
    /\ call.op = "SimpleUpperTri::get_col_start_index"
    /\ n = 5
    /\ N(call.j) = 3
    /\ ~ret.panic
    /\ N(ret.index) = 2
    /\ Ns(SimpleUpperTri_get_col_indices(U(3)).seq)[1] = 2

\* C27: SimpleUpperTri::get_row_indices(i) is defined on the whole range its
\* bounds check admits: for every n >= 1 and every i in [0, n-1] the range
\* [row_start(i, n-1), row_start(i+1, n-1)) is computed without unsigned
\* underflow and has exactly n-1-i offsets, so the last row i = n-1 yields
\* the empty sequence.
C27_SimpleUpperRowIndicesTotal ==
    (call.op = "SimpleUpperTri::get_row_indices" /\ N(call.i) \in Axis)
        => /\ ~ret.panic
           /\ Len(ret.seq) = n - 1 - N(call.i)
           /\ ~overflowing_sub(overflowing_sub(self_n, U(1)).value,
                               overflowing_add(call.i, U(1)).value).overflow

(***************************************************************************)
(* Symmetric rows.                                                         *)
(***************************************************************************)
Items(s) == {s[k] : k \in 1 .. Len(s)}

\* C28: overlap of symmetric rows: on SymmetricUpperTri, n >= 2, the offset
\* sets of get_row_indices(i) and get_row_indices(k), i # k in [0, n), share
\* exactly one offset, the slot of get_element(i, k); every offset in
\* [0, tri_num(n-1)) occurs in the rows of exactly two indices, once in each.
C28_SymmetricRowsOverlap ==
    LET row(i) == Ns(SymmetricUpperTri_get_row_indices(U(i)).seq) IN
    /\ (AtRest /\ n >= 2) =>
        /\ \A i, k \in Axis :
               i # k =>
                   /\ Items(row(i)) \cap Items(row(k))
                          = {N(SymmetricUpperTri_get_element(U(i), U(k)).index)}
                   /\ ~SymmetricUpperTri_get_element(U(i), U(k)).panic
        /\ \A off \in PackedOffsets :
               /\ Cardinality({i \in Axis : off \in Items(row(i))}) = 2
               /\ \A i \in Axis :
                      Cardinality({k \in 1 .. Len(row(i)) : row(i)[k] = off}) <= 1
    /\ (call.op = "SymmetricUpperTri::get_row_indices" /\ N(call.i) \in Axis /\ n >= 2)
           => /\ Ended(ret)
              /\ \A k \in Axis \ {N(call.i)} :
                     Items(Ns(ret.seq)) \cap Items(row(k))
                         = {N(SymmetricUpperTri_get_element(call.i, U(k)).index)}

C28_Witness ==
    /\ call.op = "SymmetricUpperTri::get_row_indices"
    /\ n = 5
    /\ N(call.i) = 1
    /\ Ended(ret)
    /\ Items(Ns(ret.seq)) \cap Items(Ns(SymmetricUpperTri_get_row_indices(U(3)).seq)) = {5}
    /\ N(SymmetricUpperTri_get_element(U(1), U(3)).index) = 5

(***************************************************************************)
(* Enumeration order.                                                      *)
(***************************************************************************)
\* C29: enumeration order equals storage order on the simple shapes: for
\* n >= 2 and every k in [0, tri_num(n-1)), the k-th pair (from 0) yielded by
\* iter_triangle_indices is the coordinate whose get_element offset is k.
C29_EnumerationIsStorageOrder ==
    /\ (call.op = "SimpleLowerTri::iter_triangle_indices" /\ n >= 2)
           => /\ Ended(ret)
              /\ Len(ret.seq) = Len(inner)
              /\ \A k \in 1 .. Len(ret.seq) :
                     /\ ~SimpleLowerTri_get_element(ret.seq[k][1], ret.seq[k][2]).panic
                     /\ N(SimpleLowerTri_get_element(ret.seq[k][1], ret.seq[k][2]).index)
                            = k - 1
    /\ (call.op = "SimpleUpperTri::iter_triangle_indices" /\ n >= 2)
           => /\ Ended(ret)
              /\ Len(ret.seq) = Len(inner)
              /\ \A k \in 1 .. Len(ret.seq) :
                     /\ ~SimpleUpperTri_get_element(ret.seq[k][1], ret.seq[k][2]).panic
                     /\ N(SimpleUpperTri_get_element(ret.seq[k][1], ret.seq[k][2]).index)
                            = k - 1

C29_Witness ==
    /\ call.op = "SimpleUpperTri::iter_triangle_indices"
    /\ n = 5
    /\ Ended(ret)
    /\ Len(ret.seq) = 10
    /\ Np(ret.seq)[6] = <<1, 3>>
    /\ N(SimpleUpperTri_get_element(U(1), U(3)).index) = 5
====
